---------------------------- MODULE Spec2Model ----------------------------
(***************************************************************************)
(* A model of the temporal event ledger of colin-api's Filing model        *)
(* (src/colin-api/src/colin_api/models/filing.py): the code registry       *)
(* FILING_TYPES and its lookups, the event-id allocator _get_event_id, the *)
(* writer add_filing with its per-type side effects, and the reconstructor *)
(* get_filing.                                                             *)
(*                                                                         *)
(* Three specifications share the module:                                  *)
(*   SpecRegistry  lookups into FILING_TYPES (pure functions, applied to   *)
(*                 inputs drawn from bounded sets);                        *)
(*   SpecAlloc     two connections allocating event ids, statement by      *)
(*                 statement;                                              *)
(*   Spec          submits (add_filing inside the caller's transaction)    *)
(*                 and reconstructions (get_filing).                       *)
(***************************************************************************)
EXTENDS Integers, Sequences, FiniteSets, TLC

\* Python's None.
None == "None"

\* dict.get(k, d) on a map modelled as a function.
Get(m, k, d) == IF k \in DOMAIN m THEN m[k] ELSE d

\* The empty dict.
EmptyMap == <<>>

\* Op applied to the value of v: v is evaluated once, as a statement's
\* operand is.
Apply(v, Op(_)) == CHOOSE r \in {Op(x) : x \in {v}} : TRUE

\* The elements of a list.
Range(s) == {s[i] : i \in DOMAIN s}

-----------------------------------------------------------------------------
(* Business.TypeCodes members used by the registry, named by enum member.  *)
COOP == "COOP"
BCOMP == "BCOMP"
BC_COMP == "BC_COMP"
ULC_COMP == "ULC_COMP"
CCC_COMP == "CCC_COMP"
BCOMP_CONTINUE_IN == "BCOMP_CONTINUE_IN"
CONTINUE_IN == "CONTINUE_IN"
ULC_CONTINUE_IN == "ULC_CONTINUE_IN"
CCC_CONTINUE_IN == "CCC_CONTINUE_IN"

CorpTypes ==
    {COOP, BCOMP, BC_COMP, ULC_COMP, CCC_COMP,
     BCOMP_CONTINUE_IN, CONTINUE_IN, ULC_CONTINUE_IN, CCC_CONTINUE_IN}

\* One entry of FILING_TYPES whose five company types share one code and
\* whose COOP code is its own.
CoopAndCompanies(coop, bcomp, bc, ulc, ccc) ==
    (COOP :> coop) @@ (BCOMP :> bcomp) @@ (BC_COMP :> bc) @@
    (ULC_COMP :> ulc) @@ (CCC_COMP :> ccc)

(* Filing.FILING_TYPES, in the insertion order of the dict literal: a list *)
(* of <<name, entry>>, an entry being the dict of that filing type.        *)
FILING_TYPES == <<
    <<"annualReport",
        ("type_code_list" :> <<"OTANN", "ANNBC">>) @@
        CoopAndCompanies("OTANN", "ANNBC", "ANNBC", "ANNBC", "ANNBC")>>,
    <<"changeOfDirectors",
        ("type_code_list" :> <<"OTCDR", "NOCDR">>) @@
        CoopAndCompanies("OTCDR", "NOCDR", "NOCDR", "NOCDR", "NOCDR")>>,
    <<"changeOfAddress",
        ("type_code_list" :> <<"OTADD", "NOCAD">>) @@
        CoopAndCompanies("OTADD", "NOCAD", "NOCAD", "NOCAD", "NOCAD")>>,
    <<"incorporationApplication",
        ("type_code_list" :> <<"OTINC", "BEINC", "ICORP", "ICORU", "ICORC">>) @@
        CoopAndCompanies("OTINC", "BEINC", "ICORP", "ICORU", "ICORC")>>,
    <<"continuationIn",
        ("type_code_list" :> <<"CONTB", "CONTI", "CONTU", "CONTC">>) @@
        (BCOMP_CONTINUE_IN :> "CONTB") @@ (CONTINUE_IN :> "CONTI") @@
        (ULC_CONTINUE_IN :> "CONTU") @@ (CCC_CONTINUE_IN :> "CONTC")>>,
    <<"conversion",
        ("type_code_list" :> <<"CONVL">>) @@
        (BC_COMP :> "CONVL") @@ (ULC_COMP :> "CONVL") @@ (CCC_COMP :> "CONVL")>>,
    <<"alteration",
        ("type_code_list" :> <<"NOALA", "NOALR">>) @@
        (BCOMP :> "NOALR") @@ (BC_COMP :> "NOALA") @@
        (ULC_COMP :> "NOALA") @@ (CCC_COMP :> "NOALA")>>,
    <<"correction",
        ("type_code_list" :> <<"CRBIN">>) @@ (BCOMP :> "CRBIN")>>,
    <<"specialResolution",
        ("type_code_list" :> <<"OTSPE">>) @@ (COOP :> "OTSPE")>>,
    <<"amalgamationApplication",
        ("sub_type_property" :> "type") @@
        ("sub_type_list" :> <<"regular", "horizontal", "vertical">>) @@
        ("type_code_list" :> <<"OTAMA",
                               "AMLRB", "AMALR", "AMLRU", "AMLRC",
                               "AMLHB", "AMALH", "AMLHU", "AMLHC",
                               "AMLVB", "AMALV", "AMLVU", "AMLVC">>) @@
        ("regular" :> CoopAndCompanies("OTAMA", "AMLRB", "AMALR", "AMLRU", "AMLRC")) @@
        ("horizontal" :> CoopAndCompanies("OTAMA", "AMLHB", "AMALH", "AMLHU", "AMLHC")) @@
        ("vertical" :> CoopAndCompanies("OTAMA", "AMLVB", "AMALV", "AMLVU", "AMLVC"))>>,
    <<"dissolved",
        ("type_code_list" :> <<"OTDIS">>) @@ (COOP :> "OTDIS")>>,
    <<"amendedAGM",
        ("type_code_list" :> <<"OTCGM">>) @@ (COOP :> "OTCGM")>>,
    <<"voluntaryDissolution",
        ("type_code_list" :> <<"OTVDS">>) @@ (COOP :> "OTVDS")>>,
    <<"dissolution",
        ("sub_type_property" :> "dissolutionType") @@
        ("sub_type_list" :> <<"voluntary", "administrative", "involuntary">>) @@
        ("type_code_list" :> <<"OTVDS", "ADVD2">>) @@
        ("voluntary" :> CoopAndCompanies("OTVDS", "ADVD2", "ADVD2", "ADVD2", "ADVD2"))>>,
    <<"changeOfName",
        ("type_code_list" :> <<"OTNCN">>) @@ (COOP :> "OTNCN")>>,
    <<"restorationApplication",
        ("type_code_list" :> <<"OTRES">>) @@ (COOP :> "OTRES")>>,
    <<"amendedAnnualReport",
        ("type_code_list" :> <<"OTAMR">>) @@ (COOP :> "OTAMR")>>,
    <<"amendedChangeOfDirectors",
        ("type_code_list" :> <<"OTADR">>) @@ (COOP :> "OTADR")>>,
    <<"voluntaryLiquidation",
        ("type_code_list" :> <<"OTVLQ">>) @@ (COOP :> "OTVLQ")>>,
    <<"appointReceiver",
        ("type_code_list" :> <<"OTNRC">>) @@ (COOP :> "OTNRC")>>,
    <<"continuedOut",
        ("type_code_list" :> <<"OTCON">>) @@ (COOP :> "OTCON")>>,
    <<"transition",
        ("type_code_list" :> <<"TRANS">>) @@ (BC_COMP :> "TRANS")>>,
    <<"registrarsNotation",
        ("type_code_list" :> <<"REGSN">>) @@ (BC_COMP :> "REGSN")>>,
    <<"registrarsOrder",
        ("type_code_list" :> <<"REGSO">>) @@ (BC_COMP :> "REGSO")>>,
    <<"courtOrder",
        ("type_code_list" :> <<"COURT">>) @@ (BC_COMP :> "COURT")>>
    >>

\* The keys of FILING_TYPES.
FilingTypeNames == {FILING_TYPES[i][1] : i \in DOMAIN FILING_TYPES}

\* FILING_TYPES.get(filing_type, {}).
FilingTypeEntry(filing_type) ==
    IF filing_type \in FilingTypeNames
    THEN LET i == CHOOSE j \in DOMAIN FILING_TYPES : FILING_TYPES[j][1] = filing_type
         IN  FILING_TYPES[i][2]
    ELSE EmptyMap

\* Every legacy code some type_code_list holds.
RegistryCodes ==
    UNION {Range(FILING_TYPES[i][2]["type_code_list"]) : i \in DOMAIN FILING_TYPES}

\* The filing-type names whose type_code_list holds the code.
TypesOfCode(code) ==
    {FILING_TYPES[i][1] : i \in {j \in DOMAIN FILING_TYPES :
        code \in Range(FILING_TYPES[j][2]["type_code_list"])}}

\* _get_filing_type over a registry iterated in the order of `types`: the
\* first filing type whose type_code_list holds the code, else None.
GetFilingTypeIn(types, filing_type_code) ==
    LET hits == {i \in DOMAIN types :
                    filing_type_code \in Range(types[i][2]["type_code_list"])}
    IN  IF hits = {} THEN None
        ELSE types[CHOOSE i \in hits : \A j \in hits : i <= j][1]

\* Filing._get_filing_type.
GetFilingType(filing_type_code) == GetFilingTypeIn(FILING_TYPES, filing_type_code)

\* Filing.get_filing_type_code: the sub-type in force is the argument or the
\* filing's own, but the sub-type map is looked up under the filing's own.
GetFilingTypeCode(filing_type, filing_sub_type, corp_type, arg_sub_type) ==
    LET sub_type == IF arg_sub_type # None THEN arg_sub_type ELSE filing_sub_type
    IN  IF sub_type # None
        THEN LET m == Get(FilingTypeEntry(filing_type), filing_sub_type, EmptyMap)
             IN  Get(m, corp_type, None)
        ELSE Get(FilingTypeEntry(filing_type), corp_type, None)

\* A sub-type check that accepts every sub-type.
SubTypeAlwaysSupported(filing_type, filing_sub_type) == TRUE

\* Filing.is_supported_filing_sub_type.
IsSupportedFilingSubType(filing_type, filing_sub_type) ==
    filing_sub_type \in Range(Get(FilingTypeEntry(filing_type), "sub_type_list", <<>>))

\* Filing.is_filing_type_match.
IsFilingTypeMatch(ft, st, filing_type, filing_sub_type) ==
    ft = filing_type /\ st = filing_sub_type

-----------------------------------------------------------------------------
(* Bounds of the model.                                                    *)

\* Event ids handed out in one behaviour of SpecAlloc.
MaxAllocs == 3
\* The highest counter value a database starts with.
MaxStartId == 2
\* Where the ids of noncorp_event_seq start: above every system_id counter
\* value of the model, the two allocators serving disjoint ranges.
SeqStart == 10

VARIABLES
    lookup,              \* SpecRegistry: the last registry lookup and its result
    system_id,           \* SpecAlloc: committed id_num of the system_id row 'EV'
    noncorp_event_seq,   \* SpecAlloc: next value of the sequence
    event,               \* SpecAlloc: committed rows of the event table, oldest first
    row_lock,            \* SpecAlloc: the connection holding the 'EV' row lock, 0 if none
    conn,                \* SpecAlloc: each connection's position in _get_event_id
    db,                  \* the committed tables of the ledger
    tx,                  \* the tables as the caller's open transaction sees them
    pc,                  \* the caller: "idle", add_filing "returned" or "raised", get_filing "read"
    call,                \* the last call of add_filing: filing, tables before, outcome
    clock,               \* the time of the latest event
    recon,               \* the last call of get_filing and what it gave
    filings              \* the filings the callers of this behaviour submit

registryVars == <<lookup>>
allocVars == <<system_id, noncorp_event_seq, event, row_lock, conn>>
ledgerVars == <<db, tx, pc, call, clock, recon, filings>>

-----------------------------------------------------------------------------
(* SpecRegistry: the lookups, applied to inputs from bounded sets.         *)

LookupFilingTypes == FilingTypeNames \cup {"notAFilingType"}
LookupSubTypes ==
    {None, "regular", "horizontal", "vertical",
     "voluntary", "administrative", "involuntary", "notASubType"}
LookupArgSubTypes == {None, "regular", "voluntary"}
LookupCorpTypes == CorpTypes \cup {"notACorpType"}
LookupCodes == RegistryCodes \cup {"NOALB", "NOALC", "NOALE", "NOALU", "XXXXX"}

NoLookup ==
    [op |-> "none", filing_type |-> None, filing_sub_type |-> None,
     arg_sub_type |-> None, corp_type |-> None, code |-> None, result |-> None]

InitRegistry == lookup = NoLookup

\* A call of filing.get_filing_type_code(filing_sub_type=arg).
LookupCode ==
    /\ lookup = NoLookup
    /\ UNCHANGED <<allocVars, ledgerVars>>
    /\ \E ft \in LookupFilingTypes, st \in LookupSubTypes,
          arg \in LookupArgSubTypes, ct \in LookupCorpTypes :
        lookup' = [op |-> "get_filing_type_code", filing_type |-> ft,
                   filing_sub_type |-> st, arg_sub_type |-> arg,
                   corp_type |-> ct, code |-> None,
                   result |-> GetFilingTypeCode(ft, st, ct, arg)]

\* A call of Filing._get_filing_type(code).
LookupType ==
    /\ lookup = NoLookup
    /\ UNCHANGED <<allocVars, ledgerVars>>
    /\ \E code \in LookupCodes :
        lookup' = [NoLookup EXCEPT !.op = "_get_filing_type", !.code = code,
                                   !.result = GetFilingType(code)]

\* The caller takes the result; the next lookup starts afresh.
LookupReturn ==
    /\ lookup # NoLookup
    /\ lookup' = NoLookup
    /\ UNCHANGED <<allocVars, ledgerVars>>

NextRegistry == LookupCode \/ LookupType \/ LookupReturn

-----------------------------------------------------------------------------
(* SpecAlloc: _get_event_id, one statement per step, on two connections.   *)

Conns == {1, 2}

\* The entities events are allocated for; corp_num[:2] of each.
AllocCorps == {"CP0000001", "BC0000002"}
CorpPrefix(corp_num) == IF corp_num = "CP0000001" THEN "CP" ELSE "BC"

\* Python truthiness of a fetched id_num.
Truthy(n) == n # 0

\* `if event_id:` then UPDATE system_id SET id_num = event_id + 1; the value
\* the counter holds after the allocation that read id_num.
CounterAfter(id_num) == IF Truthy(id_num) THEN id_num + 1 ELSE id_num

IdleConn ==
    [pc |-> "idle", corp_num |-> None, event_type |-> None, event_id |-> 0,
     new_num |-> 0, wrote |-> FALSE, inserted |-> <<>>]

InitAlloc ==
    /\ system_id \in 0..MaxStartId
    /\ noncorp_event_seq \in SeqStart..(SeqStart + MaxStartId)
    /\ event = <<>>
    /\ row_lock = 0
    /\ conn = [t \in Conns |-> IdleConn]

\* Events allocated so far, committed or in flight.
Allocated ==
    Len(event) + Cardinality({t \in Conns : conn[t].pc # "idle"})

\* The caller enters _get_event_id(cursor, corp_num, event_type).
AllocCall(t) ==
    /\ conn[t].pc = "idle"
    /\ Allocated < MaxAllocs
    /\ \E c \in AllocCorps, ty \in {"FILE", "SYSDA"} :
        conn' = [conn EXCEPT ![t] = [IdleConn EXCEPT !.pc = "start",
                                        !.corp_num = c, !.event_type = ty]]
    /\ UNCHANGED <<system_id, noncorp_event_seq, event, row_lock, lookup, ledgerVars>>

\* select noncorp_event_seq.NEXTVAL from dual
AllocNextval(t) ==
    /\ conn[t].pc = "start"
    /\ CorpPrefix(conn[t].corp_num) = "CP"
    /\ noncorp_event_seq' = noncorp_event_seq + 1
    /\ conn' = [conn EXCEPT ![t].event_id = noncorp_event_seq, ![t].pc = "insert"]
    /\ UNCHANGED <<system_id, event, row_lock, lookup, ledgerVars>>

\* SELECT id_num FROM system_id WHERE id_typ_cd = 'EV' FOR UPDATE: waits for
\* the row lock, keeps it to the end of the transaction.
AllocSelectForUpdate(t) ==
    /\ conn[t].pc = "start"
    /\ CorpPrefix(conn[t].corp_num) # "CP"
    /\ row_lock = 0
    /\ row_lock' = t
    /\ conn' = [conn EXCEPT ![t].event_id = system_id, ![t].pc = "fetched"]
    /\ UNCHANGED <<system_id, noncorp_event_seq, event, lookup, ledgerVars>>

\* if event_id: UPDATE system_id SET id_num = event_id + 1
AllocUpdate(t) ==
    /\ conn[t].pc = "fetched"
    /\ conn' = [conn EXCEPT ![t].new_num = CounterAfter(conn[t].event_id),
                            ![t].wrote = Truthy(conn[t].event_id),
                            ![t].pc = "insert"]
    /\ UNCHANGED <<system_id, noncorp_event_seq, event, row_lock, lookup, ledgerVars>>

\* INSERT INTO event (event_id, corp_num, event_typ_cd, ...)
AllocInsert(t) ==
    /\ conn[t].pc = "insert"
    /\ conn' = [conn EXCEPT
            ![t].inserted = <<[event_id |-> conn[t].event_id,
                               corp_num |-> conn[t].corp_num,
                               event_typ_cd |-> conn[t].event_type]>>,
            ![t].pc = "returned"]
    /\ UNCHANGED <<system_id, noncorp_event_seq, event, row_lock, lookup, ledgerVars>>

\* The caller commits: the connection's writes become visible, its lock goes.
AllocCommit(t) ==
    /\ conn[t].pc = "returned"
    /\ event' = event \o conn[t].inserted
    /\ system_id' = IF conn[t].wrote THEN conn[t].new_num ELSE system_id
    /\ row_lock' = IF row_lock = t THEN 0 ELSE row_lock
    /\ conn' = [conn EXCEPT ![t] = IdleConn]
    /\ UNCHANGED <<noncorp_event_seq, lookup, ledgerVars>>

\* The caller rolls back: the writes are dropped (a sequence value is not
\* given back), the lock goes.
AllocRollback(t) ==
    /\ conn[t].pc = "returned"
    /\ noncorp_event_seq < SeqStart + MaxStartId + MaxAllocs
    /\ row_lock' = IF row_lock = t THEN 0 ELSE row_lock
    /\ conn' = [conn EXCEPT ![t] = IdleConn]
    /\ UNCHANGED <<system_id, noncorp_event_seq, event, lookup, ledgerVars>>

NextAlloc ==
    \E t \in Conns :
        \/ AllocCall(t)
        \/ AllocNextval(t)
        \/ AllocSelectForUpdate(t)
        \/ AllocUpdate(t)
        \/ AllocInsert(t)
        \/ AllocCommit(t)
        \/ AllocRollback(t)

-----------------------------------------------------------------------------
(* The ledger tables and the temporal entity stores.  The stores (Office,  *)
(* Party, CorpName, Business) are called by filing.py and follow the       *)
(* contract of the specification's "Temporal Entity Stores".               *)

\* NULL in an event-id or date column; None for a date in a filing body.
Null == 0

\* The entities of the ledger.
Corps == AllocCorps

\* An empty database: no event, no header, no temporal record.
EmptyTables ==
    [system_id |-> 1,
     event |-> {}, filing |-> {}, filing_user |-> {}, ledger_text |-> <<>>,
     office |-> {}, corp_party |-> {}, corp_name |-> {},
     corp_restriction |-> {}, corp_state |-> {}, share_struct |-> {},
     resolution |-> {}, jurisdiction |-> {}, corp_involved |-> {},
     corporation |-> [c \in Corps |->
        [corp_type |-> IF CorpPrefix(c) = "CP" THEN COOP ELSE BCOMP,
         last_ar_filed_dt |-> Null, last_agm_date |-> Null,
         frozen |-> FALSE, updates |-> 0]]]

\* "Current as of event E": start_event_id <= E and the row is not ended
\* or is ended after E.
AsOfEvent(row, event_id) ==
    /\ row.start_event_id <= event_id
    /\ (row.end_event_id = Null \/ row.end_event_id > event_id)

\* The rows of a temporal table with end_event_id NULL.
CurrentRows(rows, corp_num) ==
    {r \in rows : r.corp_num = corp_num /\ r.end_event_id = Null}

\* end: sets end_event_id on the current rows chosen by `hit`.
EndRows(rows, corp_num, event_id, hit(_)) ==
    {IF r.corp_num = corp_num /\ r.end_event_id = Null /\ hit(r)
        THEN [r EXCEPT !.end_event_id = event_id] ELSE r : r \in rows}

\* The entity an event belongs to, None if there is no such event.
EventCorp(t, event_id) ==
    IF \E e \in t.event : e.event_id = event_id
    THEN (CHOOSE e \in t.event : e.event_id = event_id).corp_num
    ELSE None

\* Office.create_new_office: the office store's replacement of one office
\* type, which ends the current office of that type and creates the new one.
CreateNewOffice(t, addresses, event_id, corp_num, office_type) ==
    LET HitType(r) == r.office_typ = office_type
    IN  [t EXCEPT !.office =
            EndRows(t.office, corp_num, event_id, HitType) \cup
            {[corp_num |-> corp_num, office_typ |-> office_type,
              start_event_id |-> event_id, end_event_id |-> Null,
              addr |-> addresses]}]

\* Office.get_current.
OfficeGetCurrent(t, corp_num) == CurrentRows(t.office, corp_num)

\* Office.get_by_event: the offices of the event's entity as of the event.
OfficeGetByEvent(t, event_id) ==
    {r \in t.office : r.corp_num = EventCorp(t, event_id) /\ AsOfEvent(r, event_id)}

\* Office.convert_obj_list: office type -> addresses, as pairs.
OfficeConvertObjList(rows) == {<<r.office_typ, r.addr>> : r \in rows}

\* Party.create_new_corp_party: a new row starting at the event; a director
\* entry carrying 'ceased' is added with its end event filled.
CreateNewCorpParty(t, event_id, party, corp_num) ==
    [t EXCEPT !.corp_party = @ \cup
        {[id |-> Cardinality(t.corp_party) + 1,
          corp_num |-> corp_num, party_typ_cd |-> party.role_type,
          name |-> party.name,
          start_event_id |-> event_id,
          end_event_id |-> IF "ceased" \in party.actions THEN event_id ELSE Null]}]

\* Party.get_current: the current directors of the entity.
PartyGetCurrent(t, corp_num) ==
    {r \in CurrentRows(t.corp_party, corp_num) : r.party_typ_cd = "DIR"}

\* Party.get_by_event: the parties of one role (of all roles for None) as of
\* the event.
PartyGetByEvent(t, corp_num, event_id, role_type) ==
    {r \in t.corp_party :
        /\ r.corp_num = corp_num
        /\ AsOfEvent(r, event_id)
        /\ (role_type = None \/ r.party_typ_cd = role_type)}

\* Party.compare_parties: the current party's name against the old value
\* the incoming officer carries.
CompareParties(party, officer_json) == party.name = officer_json.prev

\* Party.end_director_by_name: ends the current director the entry points
\* at by prev_id, by name otherwise; nothing happens when there is none.
EndDirectorByName(t, director, event_id, corp_num) ==
    LET Hit(r) == /\ r.party_typ_cd = "DIR"
                  /\ IF director.prev_id # Null THEN r.id = director.prev_id
                                                ELSE r.name = director.name
    IN  [t EXCEPT !.corp_party = EndRows(t.corp_party, corp_num, event_id, Hit)]

\* An end of the parties of a role that stamps the event on every row of
\* the role, the rows ended before included.
PartyEndEvery(t, event_id, corp_num, role_type) ==
    [t EXCEPT !.corp_party =
        {IF r.corp_num = corp_num /\ r.party_typ_cd = role_type
            THEN [r EXCEPT !.end_event_id = event_id] ELSE r : r \in @}]

\* Party.end_current: ends every current party of the role.
PartyEndCurrent(t, event_id, corp_num, role_type) ==
    LET Hit(r) == r.party_typ_cd = role_type
    IN  [t EXCEPT !.corp_party = EndRows(t.corp_party, corp_num, event_id, Hit)]

\* CorpName.TypeCodes
NameCorp == "CO"
NameNumbered == "NB"
NameTranslation == "TR"

\* CorpName.create_corp_name
CreateCorpNameRow(t, corp_num, event_id, corp_name, type_code) ==
    [t EXCEPT !.corp_name = @ \cup
        {[corp_num |-> corp_num, corp_name |-> corp_name, type_code |-> type_code,
          start_event_id |-> event_id, end_event_id |-> Null]}]

\* CorpName.get_current_by_type
GetCurrentByType(t, corp_num, type_code) ==
    {r \in CurrentRows(t.corp_name, corp_num) : r.type_code = type_code}

\* CorpName.end_name
EndName(t, event_id, corp_num, corp_name, type_code) ==
    LET Hit(r) == r.corp_name = corp_name /\ r.type_code = type_code
    IN  [t EXCEPT !.corp_name = EndRows(t.corp_name, corp_num, event_id, Hit)]

\* CorpName.end_current: ends the current legal name (named or numbered).
EndCurrentName(t, event_id, corp_num) ==
    LET Hit(r) == r.type_code \in {NameCorp, NameNumbered}
    IN  [t EXCEPT !.corp_name = EndRows(t.corp_name, corp_num, event_id, Hit)]

\* CorpName.create_translations: creates the incoming translations that are
\* not among the old ones.
CreateTranslations(t, corp_num, event_id, name_translations, old_translations) ==
    [t EXCEPT !.corp_name = @ \cup
        {[corp_num |-> corp_num, corp_name |-> n, type_code |-> NameTranslation,
          start_event_id |-> event_id, end_event_id |-> Null] :
            n \in name_translations \ {o.corp_name : o \in old_translations}}]

\* CorpName.get_by_event: the names of the entity as of the event and the
\* ones the event ended, which get_filing tells apart by their start and end
\* event ids.
CorpNameGetByEvent(t, corp_num, event_id, type_code) ==
    {r \in t.corp_name :
        /\ r.corp_num = corp_num
        /\ (AsOfEvent(r, event_id) \/ r.end_event_id = event_id)
        /\ (type_code = None \/ r.type_code = type_code)}

\* Business.get_corp_restriction: the current restriction for event_id None,
\* the one as of the event otherwise; a set of at most the rows found.
GetCorpRestriction(t, event_id, corp_num) ==
    IF event_id = Null
    THEN CurrentRows(t.corp_restriction, corp_num)
    ELSE {r \in t.corp_restriction : r.corp_num = corp_num /\ AsOfEvent(r, event_id)}

\* Business.end_current_corp_restriction
EndCurrentCorpRestriction(t, event_id, corp_num) ==
    LET Hit(r) == TRUE
    IN  [t EXCEPT !.corp_restriction = EndRows(t.corp_restriction, corp_num, event_id, Hit)]

\* Business.create_corp_restriction
CreateCorpRestriction(t, event_id, corp_num, provisions) ==
    [t EXCEPT !.corp_restriction = @ \cup
        {[corp_num |-> corp_num, restriction_ind |-> IF provisions THEN "Y" ELSE "N",
          start_event_id |-> event_id, end_event_id |-> Null]}]

\* The entity's current corp_state, None when it has none.
CurrentCorpState(t, corp_num) ==
    LET cur == CurrentRows(t.corp_state, corp_num)
    IN  IF cur = {} THEN None ELSE (CHOOSE r \in cur : TRUE).state

\* Business.create_corp_state: the first state of a new entity, active.
CreateCorpState(t, corp_num, event_id) ==
    [t EXCEPT !.corp_state = @ \cup
        {[corp_num |-> corp_num, state |-> "ACT",
          start_event_id |-> event_id, end_event_id |-> Null]}]

\* Business.update_corp_state: ends the current state and starts the new one.
UpdateCorpState(t, event_id, corp_num, state) ==
    LET Hit(r) == TRUE
    IN  [t EXCEPT !.corp_state =
            EndRows(t.corp_state, corp_num, event_id, Hit) \cup
            {[corp_num |-> corp_num, state |-> state,
              start_event_id |-> event_id, end_event_id |-> Null]}]

\* Business.update_corp_type
UpdateCorpType(t, corp_num, corp_type) ==
    [t EXCEPT !.corporation[corp_num].corp_type = corp_type]

\* Business.update_corp_frozen_type
UpdateCorpFrozenType(t, corp_num) ==
    [t EXCEPT !.corporation[corp_num].frozen = TRUE]

\* Business.update_corporation: the summary record; an annual report sets
\* the last-annual-report-filed and AGM dates.
UpdateCorporation(t, corp_num, date, annual_report, last_ar_filed_dt) ==
    [t EXCEPT !.corporation[corp_num] =
        IF annual_report
        THEN [@ EXCEPT !.last_ar_filed_dt = last_ar_filed_dt,
                       !.last_agm_date = date, !.updates = @ + 1]
        ELSE [@ EXCEPT !.updates = @ + 1]]

\* ShareObject.end_share_structure
EndShareStructure(t, event_id, corp_num) ==
    LET Hit(r) == TRUE
    IN  [t EXCEPT !.share_struct = EndRows(t.share_struct, corp_num, event_id, Hit)]

\* ShareObject.create_share_structure
CreateShareStructure(t, corp_num, event_id, shares_list) ==
    [t EXCEPT !.share_struct = @ \cup
        {[corp_num |-> corp_num, share_classes |-> shares_list,
          start_event_id |-> event_id, end_event_id |-> Null]}]

\* ShareObject.get_all: the share structure as of the event.
ShareGetAll(t, corp_num, event_id) ==
    {r \in t.share_struct : r.corp_num = corp_num /\ AsOfEvent(r, event_id)}

\* Business.create_resolution
CreateResolution(t, corp_num, event_id, resolution_date) ==
    [t EXCEPT !.resolution = @ \cup
        {[corp_num |-> corp_num, event_id |-> event_id,
          resolution_dt |-> resolution_date]}]

-----------------------------------------------------------------------------
(* The writer: Filing.add_filing and the steps it calls, as functions of   *)
(* the writer's state w: the tables t as the open transaction sees them,   *)
(* the sequence seq, the clock now, the filing f, and the exception err    *)
(* that a step raised (None while none has been raised).                   *)

\* The year the system clock is in, in the years the filing dates count.
CurrentYear == 2

\* A date of a filing body as the DATE the header stores (TO_DATE), and back
\* (convert_to_json_date); None is stored as NULL.
ToDate(json_date) == [day |-> json_date]
ConvertToJsonDate(db_date) == db_date.day

\* int(ar_date[:4])
YearOf(json_date) == json_date

\* Filing.USERS
USERS ==
    (COOP :> "COOPER") @@ (BCOMP :> "BCOMPS") @@ (BC_COMP :> "BCOMPS") @@
    (ULC_COMP :> "BCOMPS") @@ (CCC_COMP :> "BCOMPS") @@
    (BCOMP_CONTINUE_IN :> "BCOMPS") @@ (CONTINUE_IN :> "BCOMPS") @@
    (ULC_CONTINUE_IN :> "BCOMPS") @@ (CCC_CONTINUE_IN :> "BCOMPS")

\* The filing types add_filing accepts.
SubmittableFilingTypes ==
    {"alteration", "amalgamationApplication", "annualReport", "changeOfAddress",
     "changeOfDirectors", "continuationIn", "correction", "courtOrder",
     "dissolution", "incorporationApplication", "registrarsNotation",
     "registrarsOrder", "specialResolution", "transition"}

\* One line of ledger narrative: its wording, the date or year and the name
\* it carries.
TextLine(line, num, name) == [line |-> line, num |-> num, name |-> name]

\* HTTPStatus.NOT_FOUND
NotFound == 404

\* A step runs unless an earlier one has raised.
Step(w, Op(_)) ==
    LET Run(x) == IF x.err # None THEN x ELSE Op(x)
    IN  Apply(w, Run)

\* A step raises.
Raise(w, err, status) == [w EXCEPT !.err = err, !.status = status]

\* _get_event_id, run to its end by the one connection that writes.
GetEventId(w, corp_num, event_type) ==
    LET cp == CorpPrefix(corp_num) = "CP"
        id == IF cp THEN w.seq ELSE w.t.system_id
    IN  [w EXCEPT
            !.seq = IF cp THEN @ + 1 ELSE @,
            !.t.system_id = IF cp THEN @ ELSE CounterAfter(@),
            !.t.event = @ \cup {[event_id |-> id, corp_num |-> corp_num,
                                 event_typ_cd |-> event_type,
                                 event_timestmp |-> w.now]},
            !.event_id = id]

\* _insert_filing_user
InsertFilingUser(w) ==
    [w EXCEPT !.t.filing_user = @ \cup
        {[event_id |-> w.event_id, user_id |-> w.user_id,
          last_nme |-> w.f.certified_by, email_addr |-> w.f.email]}]

\* The header columns every branch of _insert_filing sets.
HeaderRow(w, code) ==
    [event_id |-> w.event_id, filing_typ_cd |-> code,
     effective_dt |-> w.f.effective_date,
     period_end_dt |-> ToDate(Null), agm_date |-> ToDate(Null),
     change_dt |-> ToDate(Null),
     arrangement_ind |-> "N", court_order_num |-> None, ods_typ_cd |-> "P"]

CourtOrderCodes ==
    {"NOCAD", "CRBIN", "TRANS",
     "BEINC", "ICORP", "ICORU", "ICORC",
     "AMLRB", "AMALR", "AMLRU", "AMLRC",
     "AMLHB", "AMALH", "AMLHU", "AMLHC",
     "AMLVB", "AMALV", "AMLVU", "AMLVC",
     "CONTB", "CONTI", "CONTU", "CONTC",
     "NOALA", "NOALB", "NOALC", "NOALE", "NOALR", "NOALU",
     "REGSN", "REGSO", "COURT"}

\* An _insert_filing whose last branch inserts a plain header under whatever
\* code it was given, instead of raising.
FilingHeaderByDefault(w, code, ar_date, agm_date) == {HeaderRow(w, code)}

\* The header row _insert_filing writes for the code, as a set: empty when
\* the code is not recognised.
FilingHeaderFor(w, code, ar_date, agm_date) ==
    LET h == HeaderRow(w, code)
        body == w.f.body
    IN  IF code \in {"OTANN"}
        THEN {[h EXCEPT !.period_end_dt =
                            ToDate(IF agm_date = Null THEN ar_date ELSE agm_date),
                        !.agm_date = ToDate(agm_date)]}
        ELSE IF code \in {"OTADD", "OTCDR", "OTINC"}
        THEN {h}
        ELSE IF code \in {"ANNBC"}
        THEN {[h EXCEPT !.period_end_dt = ToDate(ar_date), !.ods_typ_cd = "F"]}
        ELSE IF code \in {"NOCDR"}
        THEN {[h EXCEPT !.change_dt = ToDate(w.f.filing_date), !.ods_typ_cd = "F"]}
        ELSE IF code \in CourtOrderCodes
        THEN IF code \in {"REGSN", "REGSO", "COURT"}
             THEN {[h EXCEPT !.arrangement_ind =
                                IF body.effectOfOrder = "planOfArrangement"
                                THEN "Y" ELSE "N",
                             !.court_order_num = body.fileNumber,
                             !.ods_typ_cd = "F"]}
             ELSE IF body.courtOrder # {}
             THEN LET court_order == CHOOSE c \in body.courtOrder : TRUE
                  IN  {[h EXCEPT !.arrangement_ind =
                                    IF court_order.effectOfOrder \notin {None, ""}
                                    THEN "Y" ELSE "N",
                                 !.court_order_num = court_order.fileNumber,
                                 !.ods_typ_cd = "F"]}
             ELSE {[h EXCEPT !.ods_typ_cd = "F"]}
        ELSE IF code \in {"OTVDS", "ADVD2", "OTSPE"}
        THEN {[h EXCEPT !.ods_typ_cd = "S"]}
        ELSE {}

\* _insert_filing
InsertFiling(w, ar_date, agm_date) ==
    LET Insert(rows) ==
            IF rows = {}
            THEN Raise(w, "InvalidFilingTypeException", Null)
            ELSE [w EXCEPT !.t.filing = @ \cup rows]
        Header(code) == Apply(FilingHeaderFor(w, code, ar_date, agm_date), Insert)
    IN  Apply(GetFilingTypeCode(w.f.filing_type, w.f.filing_sub_type,
                                w.legal_type, None), Header)

\* _insert_ledger_text, had it skipped a text that holds nothing.
InsertLedgerTextIfGiven(w, text) ==
    IF \A i \in DOMAIN text : text[i].name = None THEN w
    ELSE [w EXCEPT !.t.ledger_text =
            Append(@, [event_id |-> w.event_id, notation |-> text,
                       user_id |-> w.user_id])]

\* _insert_ledger_text
InsertLedgerText(w, text) ==
    [w EXCEPT !.t.ledger_text =
        Append(@, [event_id |-> w.event_id, notation |-> text,
                   user_id |-> w.user_id])]

\* The Canadian jurisdiction code and the description of another one, from
\* the upper-cased country and region of a foreignJurisdiction.
JurisdictionCode(country, region) ==
    IF country = "CA"
    THEN [can_jur_typ_cd |-> IF region = "FEDERAL" THEN "FD" ELSE region,
          othr_juri_desc |-> None]
    ELSE [can_jur_typ_cd |-> "OT",
          othr_juri_desc |-> IF region = "" THEN <<country>> ELSE <<country, region>>]

\* The body of the loop, had it transitioned the state of every amalgamating
\* business, foreign ones too.
ProcessAmalgamatingBusinessTransitionsAll(w, index, ab) ==
    LET foreign == ab.foreignJurisdiction # {} /\
                   ~(ab.expro /\ \E fj \in ab.foreignJurisdiction :
                                    fj.country = "CA" /\ fj.region = "BC")
        fj == CHOOSE x \in ab.foreignJurisdiction \cup {[country |-> "CA", region |-> "BC"]} :
                    ab.foreignJurisdiction # {} => x \in ab.foreignJurisdiction
        jur == JurisdictionCode(fj.country, fj.region)
    IN  [w EXCEPT
            !.t = [UpdateCorpState(w.t, w.event_id, ab.identifier, "HAM") EXCEPT
                !.corp_involved = @ \cup
                    {[event_id |-> w.event_id, corp_involve_id |-> index,
                      corp_num |-> IF foreign THEN None ELSE ab.identifier,
                      home_juri_num |-> IF foreign THEN ab.identifier ELSE None,
                      can_jur_typ_cd |-> IF foreign THEN jur.can_jur_typ_cd ELSE None,
                      othr_juri_desc |-> IF foreign THEN jur.othr_juri_desc ELSE None,
                      adopted_corp_ind |-> ~foreign /\ ab.role \in {"holding", "primary"}]}]]

\* The body of the loop of _process_amalgamating_businesses.
ProcessAmalgamatingBusiness(w, index, ab) ==
    IF ab.foreignJurisdiction # {} /\
       ~(ab.expro /\ \E fj \in ab.foreignJurisdiction :
                        fj.country = "CA" /\ fj.region = "BC")
    THEN LET fj == CHOOSE x \in ab.foreignJurisdiction : TRUE
             jur == JurisdictionCode(fj.country, fj.region)
         IN  [w EXCEPT !.t.corp_involved = @ \cup
                {[event_id |-> w.event_id, corp_involve_id |-> index,
                  corp_num |-> None, home_juri_num |-> ab.identifier,
                  can_jur_typ_cd |-> jur.can_jur_typ_cd,
                  othr_juri_desc |-> jur.othr_juri_desc,
                  adopted_corp_ind |-> FALSE]}]
    ELSE [w EXCEPT
            !.t = [UpdateCorpState(w.t, w.event_id, ab.identifier, "HAM") EXCEPT
                !.corp_involved = @ \cup
                    {[event_id |-> w.event_id, corp_involve_id |-> index,
                      corp_num |-> ab.identifier, home_juri_num |-> None,
                      can_jur_typ_cd |-> None, othr_juri_desc |-> None,
                      adopted_corp_ind |-> ab.role \in {"holding", "primary"}]}]]

RECURSIVE AmalgamatingFrom(_, _)
AmalgamatingFrom(w, index) ==
    IF index > Len(w.f.body.amalgamatingBusinesses) THEN w
    ELSE LET Rest(x) == AmalgamatingFrom(x, index + 1)
         IN  Apply(ProcessAmalgamatingBusiness(w, index - 1,
                        w.f.body.amalgamatingBusinesses[index]), Rest)

\* _process_amalgamating_businesses
ProcessAmalgamatingBusinesses(w) == AmalgamatingFrom(w, 1)

\* _process_continuation_in
ProcessContinuationIn(w) ==
    IF w.f.body.foreignJurisdiction = {}
    THEN Raise(w, "AttributeError", Null)
    ELSE LET fj == CHOOSE x \in w.f.body.foreignJurisdiction : TRUE
             jur == JurisdictionCode(fj.country, fj.region)
             expro == w.f.body.business
             xnum == IF expro = {} THEN None
                     ELSE (CHOOSE b \in expro : TRUE).identifier
             t1 == IF expro = {} THEN w.t
                   ELSE UpdateCorpState(w.t, w.event_id, xnum, "HCI")
         IN  [w EXCEPT !.t = [t1 EXCEPT !.jurisdiction = @ \cup
                {[corp_num |-> w.f.corp_num, start_event_id |-> w.event_id,
                  can_jur_typ_cd |-> jur.can_jur_typ_cd,
                  othr_juris_desc |-> jur.othr_juri_desc,
                  bc_xpro_num |-> xnum]}]]

\* _process_ar: the annual-report line of the ledger text, after the state
\* change of an entity that has caught up on its annual reports.
ProcessAr(w, ar_date, agm_date) ==
    IF w.f.filing_type = "annualReport" /\ w.f.source # "BAR"
    THEN IF ar_date = Null
         THEN Raise(w, "TypeError", Null)
         ELSE LET agm_year == YearOf(ar_date)
                  last_year == CurrentYear - 1
                  t1 == IF w.corp_state # "ACT" /\ agm_year >= last_year
                        THEN UpdateCorpState(w.t, w.event_id, w.f.corp_num, "ACT")
                        ELSE w.t
              IN  [w EXCEPT !.t = t1,
                            !.ar_text = <<IF agm_date # Null
                                          THEN TextLine("ANNUAL REPORT", agm_date, "")
                                          ELSE TextLine("ANNUAL REPORT - NO AGM HELD IN",
                                                        agm_year, "")>>]
    ELSE w

\* For each current party that compares equal: prev_id is set to it and
\* end_director_by_name is called (twice) for it.
RECURSIVE EndMatches(_, _, _, _, _)
EndMatches(t, matches, director, event_id, corp_num) ==
    IF matches = {} THEN t
    ELSE LET current_party == CHOOSE m \in matches : TRUE
             d == [director EXCEPT !.prev_id = current_party.id]
             End(x) == EndDirectorByName(x, d, event_id, corp_num)
             Rest(x) == EndMatches(x, matches \ {current_party}, director,
                                   event_id, corp_num)
         IN  Apply(Apply(Apply(t, End), End), Rest)

\* A director loop that passes over a changed entry no current party
\* matches, where _process_directors raises.
ProcessDirectorSkipsUnmatched(w, director) ==
    LET actions == director.actions
        changes == actions \cap {"nameChanged", "addressChanged"}
        Appoint(x) ==
            IF "appointed" \in actions
            THEN [x EXCEPT !.t = CreateNewCorpParty(x.t, x.event_id, director,
                                                    x.f.corp_num)]
            ELSE x
        Change(x) ==
            IF "ceased" \in actions /\ changes = {}
            THEN [x EXCEPT !.t = EndDirectorByName(x.t, director, x.event_id,
                                                   x.f.corp_num)]
            ELSE IF changes # {}
            THEN LET Found(matches) ==
                        IF matches = {} THEN x
                        ELSE [x EXCEPT
                                !.t = EndMatches(x.t, matches, director, x.event_id,
                                                 x.f.corp_num),
                                !.changed_dirs = @ \o
                                    [i \in 1..Cardinality(matches) |-> director]]
                 IN  Apply({cp \in PartyGetCurrent(x.t, x.f.corp_num) :
                                CompareParties(cp, director)}, Found)
            ELSE x
    IN  Apply(Apply(w, Appoint), Change)

\* A director loop that ends every entry carrying 'ceased' by its name,
\* whatever other action the entry carries, and stages no replacement.
ProcessDirectorCeasedAlone(w, director) ==
    LET Appoint(x) ==
            IF "appointed" \in director.actions
            THEN [x EXCEPT !.t = CreateNewCorpParty(x.t, x.event_id, director,
                                                    x.f.corp_num)]
            ELSE x
        Change(x) ==
            IF "ceased" \in director.actions
            THEN [x EXCEPT !.t = EndDirectorByName(x.t, director, x.event_id,
                                                   x.f.corp_num)]
            ELSE x
    IN  Apply(Apply(w, Appoint), Change)

\* A director loop that creates the replacement row of a changed director
\* at once, where _process_directors stages it.
ProcessDirectorCreatesAtOnce(w, director) ==
    LET actions == director.actions
        changes == actions \cap {"nameChanged", "addressChanged"}
        Appoint(x) ==
            IF "appointed" \in actions
            THEN [x EXCEPT !.t = CreateNewCorpParty(x.t, x.event_id, director,
                                                    x.f.corp_num)]
            ELSE x
        Change(x) ==
            IF "ceased" \in actions /\ changes = {}
            THEN [x EXCEPT !.t = EndDirectorByName(x.t, director, x.event_id,
                                                   x.f.corp_num)]
            ELSE IF changes # {}
            THEN LET Found(matches) ==
                        IF matches = {}
                        THEN Raise(x, "GenericException", NotFound)
                        ELSE [x EXCEPT
                                !.t = CreateNewCorpParty(
                                        EndMatches(x.t, matches, director,
                                                   x.event_id, x.f.corp_num),
                                        x.event_id, director, x.f.corp_num)]
                 IN  Apply({cp \in PartyGetCurrent(x.t, x.f.corp_num) :
                                CompareParties(cp, director)}, Found)
            ELSE x
    IN  Apply(Apply(w, Appoint), Change)

\* A director loop that rejects an entry carrying 'appointed' together with
\* a name or address change, where _process_directors logs it and goes on,
\* and passes over the other entries no current party matches.
ProcessDirectorRejectsAppointedChange(w, director) ==
    IF "appointed" \in director.actions
       /\ director.actions \cap {"nameChanged", "addressChanged"} # {}
    THEN Raise(w, "GenericException", NotFound)
    ELSE ProcessDirectorSkipsUnmatched(w, director)

\* A director loop that ends the current director of the name an entry
\* appoints before it creates the appointed row.
ProcessDirectorAppointReplaces(w, director) ==
    IF "appointed" \in director.actions
    THEN [w EXCEPT !.t = CreateNewCorpParty(
                            EndDirectorByName(w.t, director, w.event_id, w.f.corp_num),
                            w.event_id, director, w.f.corp_num)]
    ELSE ProcessDirectorCeasedAlone(w, director)

\* One entry of the director loop of _process_directors.
ProcessDirector(w, director) ==
    LET actions == director.actions
        changes == actions \cap {"nameChanged", "addressChanged"}
        Appoint(x) ==
            IF "appointed" \in actions
            THEN [x EXCEPT !.t = CreateNewCorpParty(x.t, x.event_id, director,
                                                    x.f.corp_num)]
            ELSE x
        Change(x) ==
            IF "ceased" \in actions /\ changes = {}
            THEN [x EXCEPT !.t = EndDirectorByName(x.t, director, x.event_id,
                                                   x.f.corp_num)]
            ELSE IF changes # {}
            THEN LET current_parties == PartyGetCurrent(x.t, x.f.corp_num)
                     Found(matches) ==
                        IF matches = {}
                        THEN Raise(x, "GenericException", NotFound)
                        ELSE [x EXCEPT
                                !.t = EndMatches(x.t, matches, director, x.event_id,
                                                 x.f.corp_num),
                                !.changed_dirs = @ \o
                                    [i \in 1..Cardinality(matches) |-> director]]
                 IN  Apply({cp \in current_parties : CompareParties(cp, director)},
                           Found)
            ELSE x
    IN  Apply(Apply(w, Appoint), Change)

RECURSIVE DirectorsFrom(_, _)
DirectorsFrom(w, i) ==
    IF w.err # None \/ i > Len(w.f.body.directors) THEN w
    ELSE LET Rest(x) == DirectorsFrom(x, i + 1)
         IN  Apply(ProcessDirector(w, w.f.body.directors[i]), Rest)

RECURSIVE CreateChangedFrom(_, _)
CreateChangedFrom(w, i) ==
    IF i > Len(w.changed_dirs) THEN w
    ELSE LET Rest(x) == CreateChangedFrom(x, i + 1)
         IN  Apply([w EXCEPT !.t = CreateNewCorpParty(w.t, w.event_id,
                                        w.changed_dirs[i], w.f.corp_num)], Rest)

\* _process_directors
ProcessDirectors(w) ==
    IF w.f.filing_type # "annualReport" /\ w.f.body.directors # <<>>
    THEN LET AddBack(x) ==
                IF x.err # None THEN x
                ELSE [CreateChangedFrom(x, 1) EXCEPT
                        !.dir_text = <<TextLine("Director change.", Null, "")>>]
         IN  Apply(DirectorsFrom(w, 1), AddBack)
    ELSE w

RECURSIVE OfficesFrom(_, _)
OfficesFrom(w, i) ==
    IF i > Len(w.f.body.offices) THEN w
    ELSE LET o == w.f.body.offices[i]
             text == IF w.f.filing_type \notin
                            {"amalgamationApplication", "continuationIn",
                             "incorporationApplication"}
                     THEN Append(w.office_text,
                                 TextLine("Change to the", Null, o.office_type))
                     ELSE w.office_text
             Rest(x) == OfficesFrom(x, i + 1)
         IN  Apply([w EXCEPT !.t = CreateNewOffice(w.t, o.addr, w.event_id,
                                        w.f.corp_num, o.office_type),
                             !.office_text = text], Rest)

\* An office step that creates the offices of an annualReport as it does
\* those of the other filing types.
ProcessOfficeOfAnnualReportToo(w) == OfficesFrom(w, 1)

\* An office step that takes the offices of a changeOfAddress for redundant,
\* as it does those of an annualReport.
ProcessOfficeSkipsChangeOfAddress(w) ==
    IF w.f.filing_type \in {"annualReport", "changeOfAddress"} THEN w
    ELSE OfficesFrom(w, 1)

\* _process_office
ProcessOffice(w) ==
    IF w.f.filing_type = "annualReport" THEN w
    ELSE IF IsFilingTypeMatch(w.f.filing_type, w.f.filing_sub_type,
                              "dissolution", "voluntary")
    THEN [w EXCEPT
            !.t = CreateNewOffice(w.t, w.f.body.custodialOffice, w.event_id,
                                  w.f.corp_num, "custodialOffice"),
            !.office_text = <<TextLine("Change to the", Null, "custodialOffice")>>]
    ELSE OfficesFrom(w, 1)

\* Party.role_types
RoleTypes ==
    ("Director" :> "DIR") @@ ("Incorporator" :> "INC") @@
    ("Completing Party" :> "CPRTY") @@ ("Custodian" :> "RCC")

RECURSIVE PartyRolesFrom(_, _, _)
PartyRolesFrom(w, party, i) ==
    IF i > Len(party.roles) THEN w
    ELSE LET Rest(x) == PartyRolesFrom(x, party, i + 1)
         IN  Apply([w EXCEPT !.t = CreateNewCorpParty(w.t, w.event_id,
                        [name |-> party.name, actions |-> {},
                         role_type |-> RoleTypes[party.roles[i]]],
                        w.f.corp_num)], Rest)

\* _create_party_roles
CreatePartyRoles(w, party) == PartyRolesFrom(w, party, 1)

RECURSIVE PartiesFrom(_, _)
PartiesFrom(w, i) ==
    IF i > Len(w.f.body.parties) THEN w
    ELSE LET Rest(x) == PartiesFrom(x, i + 1)
         IN  Apply(CreatePartyRoles(w, w.f.body.parties[i]), Rest)

RECURSIVE ResolutionsFrom(_, _, _)
ResolutionsFrom(t, w, i) ==
    LET dates == (CHOOSE ss \in w.f.body.shareStructure : TRUE).resolutionDates
        Rest(x) == ResolutionsFrom(x, w, i + 1)
    IN  IF i > Len(dates) THEN t
        ELSE Apply(CreateResolution(t, w.f.corp_num, w.event_id, dates[i]), Rest)

\* _process_share_structure
ProcessShareStructure(w) ==
    IF w.f.body.shareStructure = {} THEN w
    ELSE LET share_structure == CHOOSE ss \in w.f.body.shareStructure : TRUE
             Shares(t1) ==
                IF w.legal_type # COOP /\ share_structure.shareClasses # None
                THEN LET t2 == IF w.f.filing_type = "alteration"
                               THEN EndShareStructure(t1, w.event_id, w.f.corp_num)
                               ELSE t1
                     IN  [w EXCEPT !.t = CreateShareStructure(t2, w.f.corp_num,
                                            w.event_id, share_structure.shareClasses)]
                ELSE [w EXCEPT !.t = t1]
         IN  Apply(ResolutionsFrom(w.t, w, 1), Shares)

\* _create_corp_name
CreateCorpName(w, name_arg) ==
    LET name == IF name_arg = None /\ w.f.filing_type # "correction"
                THEN IF w.f.body.nameRequest = {} THEN None
                     ELSE (CHOOSE nr \in w.f.body.nameRequest : TRUE).legalName
                ELSE name_arg
        Create(t1) ==
            IF name # None
            THEN CreateCorpNameRow(t1, w.f.corp_num, w.event_id, name, NameCorp)
            ELSE CreateCorpNameRow(t1, w.f.corp_num, w.event_id, "numbered",
                                   NameNumbered)
    IN  [w EXCEPT !.t =
            Apply(IF w.f.filing_type \in {"amalgamationApplication", "continuationIn",
                                          "incorporationApplication"}
                  THEN CreateCorpState(w.t, w.f.corp_num, w.event_id)
                  ELSE IF w.f.filing_type = "alteration"
                  THEN EndCurrentName(w.t, w.event_id, w.f.corp_num)
                  ELSE w.t, Create)]

RECURSIVE EndOldTranslations(_, _, _)
EndOldTranslations(w, old_translations, name_translations) ==
    IF old_translations = {} THEN w
    ELSE LET old_translation == CHOOSE o \in old_translations : TRUE
             Rest(x) == EndOldTranslations(x, old_translations \ {old_translation},
                                           name_translations)
         IN  Apply(IF old_translation.corp_name \notin name_translations
                   THEN [w EXCEPT !.t = EndName(w.t, w.event_id, w.f.corp_num,
                                            old_translation.corp_name, NameTranslation)]
                   ELSE w, Rest)

\* _process_name_translations
ProcessNameTranslations(w) ==
    LET old_translations == GetCurrentByType(w.t, w.f.corp_num, NameTranslation)
        name_translations == w.f.body.nameTranslations
        EndOld(x) == EndOldTranslations(x, old_translations, name_translations)
    IN  IF name_translations # {}
        THEN Apply([w EXCEPT !.t = CreateTranslations(w.t, w.f.corp_num, w.event_id,
                                        name_translations, old_translations)], EndOld)
        ELSE w

\* The restriction steps of add_filing (provisionsRemoved, hasProvisions).
ProcessProvisions(w) ==
    LET corp_num == w.f.corp_num
        Removed(t) ==
            IF w.f.body.provisionsRemoved /\
               \E r \in GetCorpRestriction(t, Null, corp_num) : r.restriction_ind = "Y"
            THEN EndCurrentCorpRestriction(t, w.event_id, corp_num)
            ELSE t
        Has(t) ==
            LET provisions == GetCorpRestriction(t, Null, corp_num)
            IN  IF ~w.f.body.hasProvisions THEN t
                ELSE IF \E r \in provisions : r.restriction_ind = "N"
                THEN CreateCorpRestriction(
                        EndCurrentCorpRestriction(t, w.event_id, corp_num),
                        w.event_id, corp_num, TRUE)
                ELSE IF provisions = {}
                THEN CreateCorpRestriction(t, w.event_id, corp_num, TRUE)
                ELSE t
    IN  [w EXCEPT !.t = Apply(Apply(w.t, Removed), Has)]

\* _get_last_ar_filed_date
GetLastArFiledDate(w) ==
    IF w.f.source = "BAR" THEN w.f.filing_year ELSE w.now

\* A correction that creates the incoming parties before it ends the
\* current directors.
ProcessCorrectionCreatesFirst(w) ==
    LET Create(x) == PartiesFrom(x, 1)
        End(x) == [x EXCEPT !.t = PartyEndCurrent(x.t, x.event_id, x.f.corp_num,
                                                  RoleTypes["Director"])]
    IN  Step(Step(w, Create), End)

\* _process_correction
ProcessCorrection(w) ==
    LET corp_num == w.f.corp_num
        Name(x) ==
            IF x.f.body.nameRequest = {} THEN x
            ELSE LET new_legal_name ==
                        (CHOOSE nr \in x.f.body.nameRequest : TRUE).legalName
                     old == {r \in CurrentRows(x.t.corp_name, corp_num) :
                                r.type_code \in {NameCorp, NameNumbered}}
                     Replace(y) == CreateCorpName(y, new_legal_name)
                 IN  IF old = {} THEN Raise(x, "AttributeError", Null)
                     ELSE LET old_corp_name == CHOOSE r \in old : TRUE
                          IN  IF old_corp_name.corp_name # new_legal_name
                              THEN Apply([x EXCEPT !.t = EndName(x.t, x.event_id,
                                                corp_num, old_corp_name.corp_name,
                                                old_corp_name.type_code)], Replace)
                              ELSE x
        Parties(x) ==
            IF x.f.body.parties = <<>> THEN x
            ELSE LET Create(y) == PartiesFrom(y, 1)
                 IN  Apply([x EXCEPT !.t = PartyEndCurrent(x.t, x.event_id, corp_num,
                                                RoleTypes["Director"])], Create)
        Shares(x) ==
            IF x.f.body.shareStructure = {} THEN x
            ELSE [x EXCEPT !.t = CreateShareStructure(
                    EndShareStructure(x.t, x.event_id, corp_num),
                    corp_num, x.event_id,
                    (CHOOSE ss \in x.f.body.shareStructure : TRUE).shareClasses)]
    IN  Step(Step(Step(Step(Step(w, Name), ProcessNameTranslations), ProcessOffice),
                  Parties), Shares)

\* The per-type side effects of a filing that is not a correction, in the
\* order add_filing runs them.
ProcessDefaultPath(w, ar_date, agm_date) ==
    LET Ar(x) == ProcessAr(x, ar_date, agm_date)
        Parties(x) == PartiesFrom(x, 1)
        Name(x) == IF x.f.body.nameRequest # {} THEN CreateCorpName(x, None) ELSE x
        CorpType(x) ==
            IF x.f.body.business # {} /\
               (CHOOSE b \in x.f.body.business : TRUE).legalType # None
            THEN [x EXCEPT !.t = UpdateCorpType(x.t, x.f.corp_num,
                        (CHOOSE b \in x.f.body.business : TRUE).legalType)]
            ELSE x
        LedgerText(x) ==
            LET ledger_text == x.ar_text \o x.dir_text \o x.office_text
            IN  IF ledger_text # <<>> THEN InsertLedgerText(x, ledger_text) ELSE x
        OrderText(x) ==
            IF x.f.filing_type \in {"registrarsNotation", "registrarsOrder", "courtOrder"}
            THEN InsertLedgerText(x, <<TextLine("orderDetails", Null,
                                                x.f.body.orderDetails)>>)
            ELSE x
        Dissolution(x) ==
            IF IsFilingTypeMatch(x.f.filing_type, x.f.filing_sub_type,
                                 "dissolution", "voluntary")
            THEN [x EXCEPT !.t = UpdateCorpState(x.t, x.event_id, x.f.corp_num, "HDV")]
            ELSE x
        Resolution(x) ==
            IF x.f.filing_type = "specialResolution"
            THEN InsertLedgerText(x, <<TextLine("resolution", Null,
                                                x.f.body.resolution)>>)
            ELSE x
        Corporation(x) ==
            [x EXCEPT !.t = UpdateCorporation(x.t, x.f.corp_num, agm_date,
                                x.f.filing_type = "annualReport",
                                GetLastArFiledDate(x))]
        Freeze(x) ==
            IF \/ x.f.filing_type = "alteration"
               \/ /\ x.f.filing_type \in {"incorporationApplication",
                                          "amalgamationApplication"}
                  /\ x.legal_type = BCOMP
               \/ /\ x.f.filing_type = "continuationIn"
                  /\ x.legal_type = BCOMP_CONTINUE_IN
            THEN [x EXCEPT !.t = UpdateCorpFrozenType(x.t, x.f.corp_num)]
            ELSE x
        w1 == Step(Step(Step(w, Ar), ProcessDirectors), ProcessOffice)
        w2 == Step(Step(Step(Step(w1, Parties), ProcessShareStructure), Name),
                   ProcessNameTranslations)
        w3 == Step(Step(Step(Step(w2, CorpType), ProcessProvisions), LedgerText),
                   OrderText)
    IN  Step(Step(Step(Step(w3, Dissolution), Resolution), Corporation), Freeze)

\* The state a call of add_filing starts in: the business is the entity as
\* the caller read it.
WriterStart(t, seq, now, f) ==
    [t |-> t, seq |-> seq, now |-> now, f |-> f,
     legal_type |-> t.corporation[f.corp_num].corp_type,
     corp_state |-> CurrentCorpState(t, f.corp_num),
     event_id |-> Null, user_id |-> None, err |-> None, status |-> Null,
     ar_text |-> <<>>, dir_text |-> <<>>, office_text |-> <<>>,
     changed_dirs |-> <<>>]

\* add_filing up to the new event and its filing user: the checks of the
\* filing type and sub-type, the user of the entity type, _get_event_id and
\* _insert_filing_user.
AddFilingBegin(w) ==
    IF w.f.filing_type \notin SubmittableFilingTypes
    THEN Raise(w, "InvalidFilingTypeException", Null)
    ELSE IF w.f.filing_sub_type # None /\
            ~IsSupportedFilingSubType(w.f.filing_type, w.f.filing_sub_type)
    THEN Raise(w, "InvalidFilingTypeException", Null)
    ELSE IF w.legal_type \notin DOMAIN USERS
    THEN Raise(w, "KeyError", Null)
    ELSE LET Event(x) == GetEventId(x, x.f.corp_num, "FILE")
         IN  Step(Step([w EXCEPT !.user_id = USERS[w.legal_type]], Event),
                  InsertFilingUser)

\* A submit that goes on from the filing user to the rows of the filing's
\* type without a header.
AddFilingNoHeader(w) == w

\* add_filing's call of _insert_filing.
AddFilingHeader(w) ==
    InsertFiling(w, w.f.body.annualReportDate, w.f.body.annualGeneralMeetingDate)

\* A submit that updates the summary record after a correction as it does
\* after the other filing types.
AddFilingEffectsUpdatesSummary(w) ==
    LET agm_date == w.f.body.annualGeneralMeetingDate
        Corporation(x) ==
            [x EXCEPT !.t = UpdateCorporation(x.t, x.f.corp_num, agm_date, FALSE,
                                              GetLastArFiledDate(x))]
    IN  IF w.f.filing_type = "correction"
        THEN Step(Step(w, ProcessCorrection), Corporation)
        ELSE ProcessDefaultPath(w, w.f.body.annualReportDate, agm_date)

\* add_filing after the header: the rows of the filing's type.
AddFilingEffects(w) ==
    LET ar_date == w.f.body.annualReportDate
        agm_date == w.f.body.annualGeneralMeetingDate
        Involved(x) ==
            IF x.f.filing_type = "amalgamationApplication"
            THEN ProcessAmalgamatingBusinesses(x)
            ELSE IF x.f.filing_type = "continuationIn"
            THEN ProcessContinuationIn(x)
            ELSE x
        Effects(x) ==
            IF x.f.filing_type = "correction"
            THEN ProcessCorrection(x)
            ELSE ProcessDefaultPath(x, ar_date, agm_date)
    IN  Step(Step(w, Involved), Effects)

\* Filing.add_filing, to its return or to the exception it re-raises.
AddFilingRun(w) ==
    Step(Step(Apply(w, AddFilingBegin), AddFilingHeader), AddFilingEffects)

\* A call of add_filing that swallows the exception and returns.
OutcomeSwallowsError(w) == "returned"

\* How a call of add_filing ends: with the exception re-raised to the
\* caller, or with the event id returned.
Outcome(w) == IF w.err # None THEN "raised" ELSE "returned"

-----------------------------------------------------------------------------
(* The reconstructor: Filing.get_filing and the queries it runs, as        *)
(* functions of the committed tables t.  A component of the body is a set: *)
(* empty while the body has no such key, else holding the key's value.     *)

\* The rows of event joined with filing (and left-joined with filing_user).
EventFilingRows(t) ==
    {[event_id |-> e.event_id, event_timestmp |-> e.event_timestmp,
      corp_num |-> e.corp_num,
      filing_typ_cd |-> h.filing_typ_cd, period_end_dt |-> h.period_end_dt,
      agm_date |-> h.agm_date, effective_dt |-> h.effective_dt,
      arrangement_ind |-> h.arrangement_ind,
      court_order_num |-> h.court_order_num] :
        <<e, h>> \in {p \in t.event \X t.filing : p[1].event_id = p[2].event_id}}

\* _get_events: the events of the entity whose header has the code.
GetEvents(t, corp_num, filing_type_code) ==
    {[id |-> r.event_id, date |-> r.event_timestmp] :
        r \in {x \in EventFilingRows(t) :
                x.corp_num = corp_num /\ x.filing_typ_cd = filing_type_code}}

\* _get_filing_event_info for an event-id selector, had its query no clause
\* on the entity.
GetFilingEventInfoOfAnyEntity(t, corp_num, event_id) ==
    {r \in EventFilingRows(t) : r.event_id = event_id}

\* _get_filing_event_info for an event-id selector: the row of the event of
\* the entity, as a set that is empty when there is none.
GetFilingEventInfo(t, corp_num, event_id) ==
    {r \in EventFilingRows(t) : r.event_id = event_id /\ r.corp_num = corp_num}

\* extract(year from PERIOD_END_DT)
ExtractYear(db_date) == YearOf(ConvertToJsonDate(db_date))

\* The where clause of _get_filing_event_info for a selector without an
\* event id: the rows of the entity under the code and, when a year is
\* given, of that period-end year (no row of a NULL period end).
SelectByFilingTypeCode(t, filing_type_cd, corp_num, year) ==
    {r \in EventFilingRows(t) :
        /\ r.filing_typ_cd = filing_type_cd
        /\ r.corp_num = corp_num
        /\ year # Null => /\ r.period_end_dt # ToDate(Null)
                           /\ ExtractYear(r.period_end_dt) = year}

\* order by EVENT_TIMESTMP desc, then fetchone(): every row of the latest
\* timestamp can be the one.
FetchLatest(rows) ==
    {r \in rows : \A o \in rows : o.event_timestmp <= r.event_timestmp}

\* _get_filing_event_info for a (filing type, entity, year) selector: the
\* code is the one get_filing_type_code gives for the entity's type as it
\* is now; the rows that can be returned, none for FilingNotFoundException.
GetFilingEventInfoByType(t, filing_type, filing_sub_type, corp_num, year) ==
    LET Select(filing_type_cd) ==
            SelectByFilingTypeCode(t, filing_type_cd, corp_num, year)
    IN  FetchLatest(Apply(GetFilingTypeCode(filing_type, filing_sub_type,
                                            t.corporation[corp_num].corp_type,
                                            None), Select))

\* _get_ar_component_event: the event the loop ends on.  The loop keeps the
\* first row, in the order the query returned the rows, of the greatest date
\* at or before the annual report's; the query has no ORDER BY, so every row
\* of that date can be the one.  Without such a row it is the annual
\* report's own event.
GetArComponentEvent(t, corp_num, type_code, ar_filing_event_info) ==
    LET events == GetEvents(t, corp_num, type_code)
        upto == {e \in events :
                    ar_filing_event_info.event_timestmp >= e.date /\ e.date > 0}
        last == {e \in upto : \A o \in upto : o.date <= e.date}
    IN  IF last = {} THEN {ar_filing_event_info.event_id}
        ELSE {e.id : e \in last}

\* get_schema(...): the components the document schema declares for a
\* filing type.
SchemaComponents(filing_type) ==
    CASE filing_type = "annualReport" ->
            {"annualReportDate", "annualGeneralMeetingDate", "offices", "directors"}
      [] filing_type = "changeOfAddress" -> {"legalType", "offices"}
      [] filing_type = "changeOfDirectors" -> {"directors"}
      [] filing_type = "incorporationApplication" ->
            {"nameRequest", "nameTranslations", "offices", "parties",
             "shareStructure", "contactPoint", "courtOrder"}
      [] filing_type = "alteration" ->
            {"provisionsRemoved", "business", "nameRequest", "nameTranslations",
             "shareStructure", "contactPoint", "courtOrder"}
      [] filing_type = "specialResolution" -> {"resolution"}
      [] filing_type = "dissolution" ->
            {"dissolutionType", "dissolutionDate", "custodialOffice", "parties"}
      [] OTHER -> {}

\* The components get_filing walks: changeOfAddress is forced.
Components(filing_type) ==
    IF filing_type = "changeOfAddress" THEN {"legalType", "offices"}
    ELSE SchemaComponents(filing_type)

\* The body get_filing starts from.
EmptyReconBody ==
    [annualReportDate |-> {}, annualGeneralMeetingDate |-> {}, offices |-> {},
     custodialOffice |-> {}, directors |-> {}, parties |-> {},
     shareStructure |-> {}, nameTranslations |-> {}, nameRequest |-> {},
     business |-> {}, provisionsRemoved |-> {}, hasProvisions |-> {},
     resolution |-> {}, dissolutionType |-> {}, contactPoint |-> {},
     legalType |-> {}, courtOrder |-> {}]

\* The state get_filing starts in for the filing the caller built: its type,
\* sub-type, entity and event id.
ReconStart(t, filing_type, filing_sub_type, corp_num, event_id) ==
    [t |-> t, filing_type |-> filing_type, filing_sub_type |-> filing_sub_type,
     corp_num |-> corp_num, event_id |-> event_id,
     corp_type |-> t.corporation[corp_num].corp_type,
     info |-> GetFilingEventInfo(t, corp_num, event_id),
     body |-> EmptyReconBody, paper_only |-> FALSE, err |-> None,
     offices_event |-> Null, directors_event |-> Null]

\* A step of get_filing raises.
ReconRaise(r, err) == [r EXCEPT !.err = err]

\* A step of get_filing runs when its component is declared and no earlier
\* step has raised.
Component(r, name, Op(_)) ==
    LET Run(x) == IF x.err # None \/ name \notin Components(x.filing_type)
                  THEN x ELSE Op(x)
    IN  Apply(r, Run)

\* filing_event_info, once it is known to exist.
Info(r) == CHOOSE i \in r.info : TRUE

\* FilingType.get_most_recent_match_before_event: the code of the entity's
\* latest header before the event whose code is one of the given ones, as a
\* set that is empty when there is none.
GetMostRecentMatchBeforeEvent(t, corp_num, event_id, matching_filing_types) ==
    LET rows == {x \in EventFilingRows(t) :
                    /\ x.corp_num = corp_num
                    /\ x.event_id < event_id
                    /\ x.filing_typ_cd \in matching_filing_types}
    IN  {x.filing_typ_cd : x \in {y \in rows : \A o \in rows : o.event_id <= y.event_id}}

\* Filing.FILING_TYPE_TO_CORP_TYPE_CONVERSION
FILING_TYPE_TO_CORP_TYPE_CONVERSION ==
    ("ICORP" :> BC_COMP) @@ ("ICORU" :> ULC_COMP) @@ ("ICORC" :> CCC_COMP) @@
    ("NOALB" :> BC_COMP) @@ ("NOALC" :> CCC_COMP) @@ ("NOALU" :> ULC_COMP)

\* _get_corp_type_for_event, as a set: the corp type found, None for a
\* matching code without a corp type; empty when no header matched (the
\* attribute of None is then read).
GetCorpTypeForEvent(t, corp_num, event_id) ==
    {Get(FILING_TYPE_TO_CORP_TYPE_CONVERSION, code, None) :
        code \in GetMostRecentMatchBeforeEvent(t, corp_num, event_id,
                    DOMAIN FILING_TYPE_TO_CORP_TYPE_CONVERSION)}

\* The date components, read off the header.
ReconAnnualReportDate(r) ==
    [r EXCEPT !.body.annualReportDate = {ConvertToJsonDate(Info(r).period_end_dt)}]

ReconAnnualGeneralMeetingDate(r) ==
    [r EXCEPT !.body.annualGeneralMeetingDate = {ConvertToJsonDate(Info(r).agm_date)}]

\* get_filing's offices component without the fall-back to the current
\* offices.
ReconOfficesNoFallBack(r, component_event) ==
    [r EXCEPT !.offices_event = component_event,
              !.body.offices =
                    {OfficeConvertObjList(OfficeGetByEvent(r.t, component_event))}]

\* The offices component, read at the event `component_event` that
\* _get_ar_component_event returned for an annual report.
ReconOffices(r, component_event) ==
    LET event_id == IF r.filing_type = "annualReport" THEN component_event
                    ELSE Info(r).event_id
        office_obj_list == OfficeGetByEvent(r.t, event_id)
    IN  IF office_obj_list = {}
        THEN IF r.filing_type # "annualReport"
             THEN ReconRaise([r EXCEPT !.offices_event = event_id],
                             "OfficeNotFoundException")
             ELSE [r EXCEPT !.paper_only = TRUE, !.offices_event = event_id,
                            !.body.offices =
                                {OfficeConvertObjList(OfficeGetCurrent(r.t, r.corp_num))}]
        ELSE [r EXCEPT !.offices_event = event_id,
                       !.body.offices = {OfficeConvertObjList(office_obj_list)}]

ReconCustodialOffice(r) ==
    LET converted == OfficeConvertObjList(OfficeGetByEvent(r.t, Info(r).event_id))
        custodial == {o[2] : o \in {x \in converted : x[1] = "custodialOffice"}}
    IN  [r EXCEPT !.paper_only = TRUE,
                  !.body.custodialOffice =
                        IF custodial = {} THEN {None} ELSE custodial]

\* Party.as_dict, for the parties of a body.
PartiesAsDict(rows) == {[name |-> p.name, role |-> p.party_typ_cd] : p \in rows}

\* get_filing's directors component falling back to the current directors
\* for every filing type.
ReconDirectorsFallBackAlways(r, component_event) ==
    LET event_id == IF r.filing_type = "annualReport" THEN component_event
                    ELSE Info(r).event_id
        directors == PartyGetByEvent(r.t, r.corp_num, event_id, RoleTypes["Director"])
    IN  [r EXCEPT !.directors_event = event_id,
                  !.paper_only = @ \/ directors = {},
                  !.body.directors =
                        {PartiesAsDict(IF directors = {}
                                       THEN PartyGetCurrent(r.t, r.corp_num)
                                       ELSE directors)}]

\* The directors component, read at the event `component_event` that
\* _get_ar_component_event returned for an annual report.
ReconDirectors(r, component_event) ==
    LET event_id == IF r.filing_type = "annualReport" THEN component_event
                    ELSE Info(r).event_id
        directors == PartyGetByEvent(r.t, r.corp_num, event_id, RoleTypes["Director"])
    IN  IF directors = {}
        THEN IF r.filing_type # "annualReport"
             THEN ReconRaise([r EXCEPT !.directors_event = event_id],
                             "PartiesNotFoundException")
             ELSE [r EXCEPT !.paper_only = TRUE, !.directors_event = event_id,
                            !.body.directors =
                                {PartiesAsDict(PartyGetCurrent(r.t, r.corp_num))}]
        ELSE [r EXCEPT !.directors_event = event_id,
                       !.body.directors = {PartiesAsDict(directors)}]

ReconParties(r) ==
    LET parties ==
            IF IsFilingTypeMatch(r.filing_type, r.filing_sub_type,
                                 "dissolution", "voluntary")
            THEN PartyGetByEvent(r.t, r.corp_num, Info(r).event_id,
                                 RoleTypes["Custodian"])
            ELSE PartyGetByEvent(r.t, r.corp_num, Info(r).event_id, None)
    IN  IF parties = {} THEN ReconRaise(r, "PartiesNotFoundException")
        ELSE [r EXCEPT !.body.parties = {PartiesAsDict(parties)}]

ReconShareStructure(r) ==
    LET share_structure == ShareGetAll(r.t, r.corp_num, Info(r).event_id)
    IN  IF share_structure # {}
        THEN [r EXCEPT !.body.shareStructure =
                            {{x.share_classes : x \in share_structure}}]
        ELSE r

\* get_filing's nameTranslations component listing every translation the
\* store returns, the ones it did not start as ceased.
ReconNameTranslationsListsAll(r) ==
    LET event_id == Info(r).event_id
        translations == CorpNameGetByEvent(r.t, r.corp_num, event_id, NameTranslation)
        list == {[name |-> x.corp_name,
                  mark |-> IF x.start_event_id = event_id THEN "new" ELSE "ceased"] :
                    x \in translations}
    IN  IF list = {} THEN r ELSE [r EXCEPT !.body.nameTranslations = {list}]

\* The translations the event started are new, the ones it ended are
\* ceased; the key is dropped when there is neither.
ReconNameTranslations(r) ==
    LET event_id == Info(r).event_id
        translations == CorpNameGetByEvent(r.t, r.corp_num, event_id, NameTranslation)
        list == {[name |-> x.corp_name,
                  mark |-> IF x.start_event_id = event_id THEN "new" ELSE "ceased"] :
                    x \in {y \in translations :
                            y.start_event_id = event_id \/ y.end_event_id = event_id}}
    IN  IF list = {} THEN r ELSE [r EXCEPT !.body.nameTranslations = {list}]

\* The names of the event that the loop over the names can stop at.
ReconNameChoices(t, corp_num, event_id) ==
    {x.corp_name : x \in {y \in CorpNameGetByEvent(t, corp_num, event_id, None) :
                            y.start_event_id = event_id}}

\* The nameRequest component: the name the loop stopped at, `name`.
ReconNameRequest(r, name) ==
    IF name \in ReconNameChoices(r.t, r.corp_num, Info(r).event_id)
    THEN [r EXCEPT !.body.nameRequest =
                {[legalName |-> name, legalType |-> r.corp_type]}]
    ELSE r

ReconBusiness(r) ==
    LET code == Info(r).filing_typ_cd
        Business(legalType) ==
            [r EXCEPT !.body.business =
                {[legalType |-> legalType, identifier |-> <<"BC", r.corp_num>>]}]
    IN  IF code = "NOALR" THEN Business(BC_COMP)
        ELSE IF code = "NOALE" THEN Business(BCOMP)
        ELSE IF code = "NOALA"
        THEN LET corp_type == GetCorpTypeForEvent(r.t, r.corp_num, Info(r).event_id)
             IN  IF corp_type = {} THEN ReconRaise(r, "AttributeError")
                 ELSE IF corp_type = {None}
                 THEN ReconRaise(r, "UnableToDetermineCorpTypeException")
                 ELSE Business(CHOOSE c \in corp_type : TRUE)
        ELSE ReconRaise(r, "InvalidFilingTypeException")

ReconProvisionsRemoved(r) ==
    LET provisions == GetCorpRestriction(r.t, Info(r).event_id, r.corp_num)
    IN  [r EXCEPT !.body.provisionsRemoved =
            {\E x \in provisions : /\ x.end_event_id = Info(r).event_id
                                   /\ x.restriction_ind = "Y"}]

ReconHasProvisions(r) ==
    LET provisions == GetCorpRestriction(r.t, Info(r).event_id, r.corp_num)
    IN  [r EXCEPT !.body.hasProvisions =
            {\E x \in provisions : x.restriction_ind = "Y"}]

\* _get_notation, read for the resolution component.
ReconResolution(r) ==
    LET notations == {i \in DOMAIN r.t.ledger_text :
                        r.t.ledger_text[i].event_id = Info(r).event_id}
    IN  IF notations = {} THEN ReconRaise(r, "FilingNotFoundException")
        ELSE [r EXCEPT !.paper_only = TRUE,
                       !.body.resolution =
                            {r.t.ledger_text[CHOOSE i \in notations :
                                \A j \in notations : i <= j].notation}]

ReconDissolutionType(r) == [r EXCEPT !.body.dissolutionType = {r.filing_sub_type}]

ReconDissolutionDate(r) == [r EXCEPT !.paper_only = TRUE]

ReconContactPoint(r) ==
    LET users == {u \in r.t.filing_user : u.event_id = Info(r).event_id}
    IN  [r EXCEPT !.body.contactPoint =
            {IF users = {} THEN "" ELSE (CHOOSE u \in users : TRUE).email_addr}]

ReconLegalType(r) == [r EXCEPT !.body.legalType = {r.corp_type}]

ReconCourtOrder(r) ==
    IF Info(r).court_order_num \notin {None, ""}
    THEN [r EXCEPT !.body.courtOrder =
            {[fileNumber |-> Info(r).court_order_num,
              effectOfOrder |-> IF Info(r).arrangement_ind = "Y"
                                THEN "planOfArrangement" ELSE ""]}]
    ELSE r

\* Filing.get_filing for an event-id selector, to its return or to the
\* exception it raises.  offices_event and directors_event are what
\* _get_ar_component_event returned, name the name the name loop stopped at.
GetFilingRun(t, filing_type, filing_sub_type, corp_num, event_id, offices_event, directors_event, name) ==
    LET Offices(r) == ReconOffices(r, offices_event)
        Directors(r) == ReconDirectors(r, directors_event)
        NameRequest(r) == ReconNameRequest(r, name)
        PaperOnly(r) ==
            IF r.err = None /\ r.filing_type = "incorporationApplication"
               /\ r.corp_type = COOP
            THEN [r EXCEPT !.paper_only = TRUE]
            ELSE r
        Walk(r0) ==
            LET r1 == Component(Component(r0, "annualReportDate", ReconAnnualReportDate),
                        "annualGeneralMeetingDate", ReconAnnualGeneralMeetingDate)
                r2 == Component(Component(Component(r1, "offices", Offices),
                                  "custodialOffice", ReconCustodialOffice),
                        "directors", Directors)
                r3 == Component(Component(Component(r2, "parties", ReconParties),
                                  "shareStructure", ReconShareStructure),
                        "nameTranslations", ReconNameTranslations)
                r4 == Component(Component(Component(r3, "nameRequest", NameRequest),
                                  "business", ReconBusiness),
                        "provisionsRemoved", ReconProvisionsRemoved)
                r5 == Component(Component(Component(r4, "hasProvisions", ReconHasProvisions),
                                  "resolution", ReconResolution),
                        "dissolutionType", ReconDissolutionType)
                r6 == Component(Component(Component(r5, "dissolutionDate", ReconDissolutionDate),
                                  "contactPoint", ReconContactPoint),
                        "legalType", ReconLegalType)
            IN  IF r0.info = {} THEN ReconRaise(r0, "FilingNotFoundException")
                ELSE Apply(Component(r6, "courtOrder", ReconCourtOrder), PaperOnly)
    IN  Apply(ReconStart(t, filing_type, filing_sub_type, corp_num, event_id), Walk)

-----------------------------------------------------------------------------
(* The ledger: callers submit filings with add_filing inside a transaction *)
(* they commit when it returns and roll back when it raises, and read      *)
(* filings back with get_filing.                                           *)

\* Events one behaviour commits.
MaxEvents == 3
\* The latest time an event is stamped with; time starts at 1.
MaxClock == 2

\* A body without any key.
EmptyBody ==
    [annualReportDate |-> Null, annualGeneralMeetingDate |-> Null,
     business |-> {}, nameRequest |-> {}, orderDetails |-> None,
     resolution |-> None, amalgamatingBusinesses |-> <<>>,
     foreignJurisdiction |-> {}, directors |-> <<>>, offices |-> <<>>,
     custodialOffice |-> None, parties |-> <<>>, shareStructure |-> {},
     nameTranslations |-> {}, provisionsRemoved |-> FALSE,
     hasProvisions |-> FALSE, courtOrder |-> {}, effectOfOrder |-> None,
     fileNumber |-> None, metaData |-> None]

\* A Filing object as the caller hands it to add_filing.
NewFiling(corp_num, filing_type, body) ==
    [corp_num |-> corp_num, filing_type |-> filing_type, filing_sub_type |-> None,
     source |-> "LEAR", filing_year |-> Null, filing_date |-> Null,
     effective_date |-> Null, certified_by |-> "certifier", email |-> "",
     body |-> body]

\* A director entry of a body: the officer's name, the old-value name it
\* carries, and its actions.
Director(name, prev, actions) ==
    [name |-> name, prev |-> prev, actions |-> actions,
     role_type |-> RoleTypes["Director"], prev_id |-> Null]

\* One office of a body.
OfficeOf(office_type, addr) == [office_type |-> office_type, addr |-> addr]

ChangeOfAddress(corp_num, offices) ==
    NewFiling(corp_num, "changeOfAddress", [EmptyBody EXCEPT !.offices = offices])

AnnualReport(corp_num, ar_date, agm_date) ==
    NewFiling(corp_num, "annualReport",
              [EmptyBody EXCEPT !.annualReportDate = ar_date,
                                !.annualGeneralMeetingDate = agm_date])

ChangeOfDirectors(corp_num, directors) ==
    NewFiling(corp_num, "changeOfDirectors", [EmptyBody EXCEPT !.directors = directors])

IncorporationApplication(corp_num, legalName, nameTranslations) ==
    NewFiling(corp_num, "incorporationApplication",
              [EmptyBody EXCEPT
                    !.nameRequest = {[legalName |-> legalName]},
                    !.nameTranslations = nameTranslations,
                    !.offices = <<OfficeOf("registeredOffice", "addr1")>>,
                    !.parties = <<[name |-> "Ann", roles |-> <<"Director">>]>>])

Alteration(corp_num, nameRequest, nameTranslations) ==
    NewFiling(corp_num, "alteration",
              [EmptyBody EXCEPT !.nameRequest = nameRequest,
                                !.nameTranslations = nameTranslations])

SpecialResolution(corp_num, nameRequest) ==
    NewFiling(corp_num, "specialResolution",
              [EmptyBody EXCEPT !.nameRequest = nameRequest,
                                !.resolution = "resolved"])

\* The filings of the behaviours about offices and annual reports.
OfficeFilings ==
    {ChangeOfAddress(c, <<OfficeOf("registeredOffice", "addr1")>>) : c \in Corps}
    \cup {ChangeOfAddress("CP0000001", <<OfficeOf("registeredOffice", "addr2"),
                                         OfficeOf("recordsOffice", "addr2")>>)}
    \cup {AnnualReport(c, CurrentYear, Null) : c \in Corps}
    \cup {AnnualReport("CP0000001", CurrentYear, 1),
          AnnualReport("CP0000001", Null, Null)}

\* The filings of the behaviours about directors.
DirectorFilings ==
    {ChangeOfDirectors(c, <<Director("Ann", None, {"appointed"})>>) : c \in Corps}
    \cup {ChangeOfDirectors("CP0000001", d) : d \in
            {<<Director("Ann", None, {"ceased"})>>,
             <<Director("Bob", "Ann", {"nameChanged"})>>,
             <<Director("Bob", "Ann", {"ceased", "addressChanged"})>>,
             <<Director("Cy", None, {"appointed"}),
               Director("Dee", "Eve", {"nameChanged"})>>}}

\* The filings of the behaviours about names and name translations.
NameFilings ==
    {IncorporationApplication(c, "Name1", {"Alpha", "Beta"}) : c \in Corps}
    \cup {Alteration("BC0000002", {}, I) : I \in {{}, {"Alpha", "Gamma"}}}
    \cup {Alteration("BC0000002", {[legalName |-> "Name2"]}, {"Alpha", "Beta"}),
          Alteration("CP0000001", {}, {"Alpha"}),
          SpecialResolution("CP0000001", {[legalName |-> "Name2"]})}

\* No call of add_filing yet.
NoCall ==
    [f |-> NewFiling(None, None, EmptyBody), before |-> EmptyTables,
     event_id |-> Null, err |-> None, status |-> Null, outcome |-> "none"]

\* No call of get_filing yet.
NoRecon ==
    [op |-> "none", filing_type |-> None, corp_num |-> None, event_id |-> Null,
     err |-> None, body |-> EmptyReconBody, paper_only |-> FALSE,
     offices_event |-> Null, directors_event |-> Null]

\* An empty ledger whose callers submit the filings of F.
InitLedger(F) ==
    /\ db = EmptyTables
    /\ tx = EmptyTables
    /\ pc = "idle"
    /\ call = NoCall
    /\ clock = 1
    /\ recon = NoRecon
    /\ filings = F

\* A caller opens a transaction and calls add_filing for a filing, now or
\* a moment later; the call runs to its return or to its exception.  An
\* incorporation application is the first filing of its entity.
AddFiling ==
    /\ pc = "idle"
    /\ Cardinality(db.event) < MaxEvents
    /\ noncorp_event_seq < SeqStart + MaxEvents
    /\ \E f \in filings, now \in {clock, clock + 1} :
        /\ now <= MaxClock
        /\ f.filing_type = "incorporationApplication"
                => \A e \in db.event : e.corp_num # f.corp_num
        /\ \E w \in {Apply(WriterStart(db, noncorp_event_seq, now, f), AddFilingRun)} :
               /\ tx' = w.t
               /\ noncorp_event_seq' = w.seq
               /\ clock' = now
               /\ call' = [f |-> f, before |-> db, event_id |-> w.event_id,
                           err |-> w.err, status |-> w.status,
                           outcome |-> Outcome(w)]
               /\ pc' = Outcome(w)
    /\ UNCHANGED <<db, recon, filings, lookup, system_id, event, row_lock, conn>>

\* The caller of add_filing commits when the call returned the event id.
CallerCommit ==
    /\ pc = "returned"
    /\ db' = tx
    /\ pc' = "idle"
    /\ UNCHANGED <<tx, call, clock, recon, filings, lookup, allocVars>>

\* The caller of add_filing rolls back when the call raised.
CallerRollback ==
    /\ pc = "raised"
    /\ tx' = db
    /\ pc' = "idle"
    /\ UNCHANGED <<db, call, clock, recon, filings, lookup, allocVars>>

\* A caller reads the filing of an event back with get_filing, asking for
\* it under the filing type of the event's code and under some entity.
GetFiling ==
    /\ pc = "idle"
    /\ \E h \in EventFilingRows(db), corp_num \in Corps :
        LET filing_type == GetFilingType(h.filing_typ_cd)
            info == GetFilingEventInfo(db, corp_num, h.event_id)
            ar == IF info = {} THEN h ELSE CHOOSE i \in info : TRUE
            names == ReconNameChoices(db, corp_num, h.event_id)
        IN  \E offices_event \in GetArComponentEvent(db, corp_num, "OTADD", ar),
               directors_event \in GetArComponentEvent(db, corp_num, "OTCDR", ar),
               name \in IF names = {} THEN {None} ELSE names :
                \E r \in {GetFilingRun(db, filing_type, None, corp_num, h.event_id,
                                      offices_event, directors_event, name)} :
                    recon' = [op |-> "get_filing", filing_type |-> filing_type,
                              corp_num |-> corp_num, event_id |-> h.event_id,
                              err |-> r.err, body |-> r.body,
                              paper_only |-> r.paper_only,
                              offices_event |-> r.offices_event,
                              directors_event |-> r.directors_event]
    /\ pc' = "read"
    /\ UNCHANGED <<db, tx, call, clock, filings, lookup, allocVars>>

\* get_filing has returned or raised and its caller goes on.
GetFilingReturn ==
    /\ pc = "read"
    /\ pc' = "idle"
    /\ recon' = NoRecon
    /\ UNCHANGED <<db, tx, call, clock, filings, lookup, allocVars>>

NextLedger ==
    AddFiling \/ CallerCommit \/ CallerRollback \/ GetFiling \/ GetFilingReturn

\* A filing with a sub-type, as the caller sets it from the body.
WithSubType(f, filing_sub_type) == [f EXCEPT !.filing_sub_type = filing_sub_type]

Dissolution(corp_num, filing_sub_type) ==
    WithSubType(NewFiling(corp_num, "dissolution", EmptyBody), filing_sub_type)

\* The filings of the behaviours about what add_filing accepts: filing
\* types inside and outside its list, sub-types their filing type supports
\* or not, and filing types the registry has or has no code for under the
\* entity's type.
SubmitFilings ==
    {Dissolution(c, "voluntary") : c \in Corps}
    \cup {NewFiling("CP0000001", "conversion", EmptyBody),
          WithSubType(AnnualReport("CP0000001", CurrentYear, Null), "voluntary"),
          Dissolution("BC0000002", "notASubType")}

\* Business.CorpStateTypes: the states the dissolution events set.
ADMINISTRATIVE_DISSOLUTION == "HDA"
INVOLUNTARY_DISSOLUTION_NO_AR == "HDF"
INVOLUNTARY_DISSOLUTION_NO_TR == "HDT"

\* What a call that is no add_filing leaves in `call`.
EventCall(corp_num, before, event_id) ==
    [NoCall EXCEPT !.f.corp_num = corp_num, !.before = before,
                   !.event_id = event_id, !.outcome = "returned"]

\* Filing.add_administrative_dissolution_event, in a transaction of its
\* caller.
AddAdministrativeDissolutionEvent ==
    /\ pc = "idle"
    /\ Cardinality(db.event) < MaxEvents
    /\ noncorp_event_seq < SeqStart + MaxEvents
    /\ \E corp_num \in Corps, now \in {clock, clock + 1} :
        /\ now <= MaxClock
        /\ \E w \in {GetEventId(WriterStart(db, noncorp_event_seq, now,
                                            NewFiling(corp_num, None, EmptyBody)),
                                corp_num, "SYSDA")} :
               /\ tx' = UpdateCorpState(w.t, w.event_id, corp_num,
                                        ADMINISTRATIVE_DISSOLUTION)
               /\ noncorp_event_seq' = w.seq
               /\ clock' = now
               /\ call' = EventCall(corp_num, db, w.event_id)
    /\ pc' = "returned"
    /\ UNCHANGED <<db, recon, filings, lookup, system_id, event, row_lock, conn>>

\* What filing_body.get('metaData') may hold: nothing, an empty dict, a
\* dict with one of the overdue flags or with both, a dict with neither.
MetaData == {None, "empty", "overdueARs", "overdueTransition", "both", "other"}

\* The flags of the meta data that are set.
MetaDataGet(meta, flag) == meta = flag \/ meta = "both"

\* The event type and corporate state add_involuntary_dissolution_event
\* chose, had it looked at overdueTransition first.
InvoluntaryDissolutionTransitionFirst(meta) ==
    IF MetaDataGet(meta, "overdueTransition")
    THEN [event_type |-> "SYSDT", corp_state |-> INVOLUNTARY_DISSOLUTION_NO_TR]
    ELSE IF MetaDataGet(meta, "overdueARs")
    THEN [event_type |-> "SYSDF", corp_state |-> INVOLUNTARY_DISSOLUTION_NO_AR]
    ELSE [event_type |-> None, corp_state |-> None]

\* The event type and corporate state add_involuntary_dissolution_event
\* chooses from the flags of the meta data.
InvoluntaryDissolution(meta) ==
    IF MetaDataGet(meta, "overdueARs")
    THEN [event_type |-> "SYSDF", corp_state |-> INVOLUNTARY_DISSOLUTION_NO_AR]
    ELSE IF MetaDataGet(meta, "overdueTransition")
    THEN [event_type |-> "SYSDT", corp_state |-> INVOLUNTARY_DISSOLUTION_NO_TR]
    ELSE [event_type |-> None, corp_state |-> None]

\* Filing.add_involuntary_dissolution_event: no event without meta data or
\* without an overdue flag in it.
AddInvoluntaryDissolutionEvent ==
    /\ pc = "idle"
    /\ Cardinality(db.event) < MaxEvents
    /\ noncorp_event_seq < SeqStart + MaxEvents
    /\ \E corp_num \in Corps, now \in {clock, clock + 1}, meta \in MetaData :
        /\ now <= MaxClock
        /\ LET filing_body == [EmptyBody EXCEPT !.metaData = meta]
               w0 == WriterStart(db, noncorp_event_seq, now,
                                 NewFiling(corp_num, None, filing_body))
               chosen == InvoluntaryDissolution(meta)
               Called(event_id) ==
                    [EventCall(corp_num, db, event_id) EXCEPT !.f.body = filing_body]
           IN  IF meta \in {None, "empty"} \/ chosen.event_type = None
               THEN /\ call' = Called(Null)
                    /\ UNCHANGED <<tx, noncorp_event_seq, clock>>
               ELSE \E w \in {GetEventId(w0, corp_num, chosen.event_type)} :
                       /\ tx' = UpdateCorpState(w.t, w.event_id, corp_num,
                                                chosen.corp_state)
                       /\ noncorp_event_seq' = w.seq
                       /\ clock' = now
                       /\ call' = Called(w.event_id)
    /\ pc' = "returned"
    /\ UNCHANGED <<db, recon, filings, lookup, system_id, event, row_lock, conn>>

NextSubmit ==
    \/ AddFiling
    \/ CallerCommit
    \/ CallerRollback
    \/ AddAdministrativeDissolutionEvent
    \/ AddInvoluntaryDissolutionEvent

\* The filings of the behaviours in which get_filing runs while add_filing
\* is under way.
ConcurrentFilings ==
    {ChangeOfAddress("BC0000002", <<OfficeOf("registeredOffice", "addr1")>>),
     AnnualReport("CP0000001", CurrentYear, Null),
     ChangeOfDirectors("CP0000001", <<Director("Ann", None, {"appointed"})>>),
     ChangeOfDirectors("CP0000001", <<Director("Cy", None, {"appointed"}),
                                      Director("Dee", "Eve", {"nameChanged"})>>)}

\* add_filing between two of its statements: the tables of its transaction,
\* the filing, the event id and the user it has set so far.
ResumeWriter ==
    LET w == WriterStart(tx, noncorp_event_seq, clock, call.f)
    IN  [w EXCEPT !.event_id = call.event_id, !.user_id = USERS[w.legal_type]]

\* Where add_filing stands after a statement that left it in state w.
StageAfter(w, stage) == IF w.err # None THEN Outcome(w) ELSE stage

\* add_filing is called and runs up to the new event and its filing user.
SubmitBegin ==
    /\ pc = "idle"
    /\ Cardinality(db.event) < MaxEvents
    /\ noncorp_event_seq < SeqStart + MaxEvents
    /\ \E f \in filings, now \in {clock, clock + 1} :
        /\ now <= MaxClock
        /\ \E w \in {Apply(WriterStart(db, noncorp_event_seq, now, f), AddFilingBegin)} :
               /\ tx' = w.t
               /\ noncorp_event_seq' = w.seq
               /\ clock' = now
               /\ call' = [f |-> f, before |-> db, event_id |-> w.event_id,
                           err |-> w.err, status |-> w.status,
                           outcome |-> StageAfter(w, "event")]
               /\ pc' = StageAfter(w, "event")
    /\ UNCHANGED <<db, recon, filings, lookup, system_id, event, row_lock, conn>>

\* add_filing inserts the header.
SubmitHeader ==
    /\ pc = "event"
    /\ \E w \in {Apply(ResumeWriter, AddFilingHeader)} :
           /\ tx' = w.t
           /\ call' = [call EXCEPT !.err = w.err, !.status = w.status,
                                   !.outcome = StageAfter(w, "header")]
           /\ pc' = StageAfter(w, "header")
    /\ UNCHANGED <<db, clock, recon, filings, lookup, allocVars>>

\* add_filing writes the rows of the filing's type and returns, or raises.
SubmitEffects ==
    /\ pc = "header"
    /\ \E w \in {Apply(ResumeWriter, AddFilingEffects)} :
           /\ tx' = w.t
           /\ call' = [call EXCEPT !.err = w.err, !.status = w.status,
                                   !.outcome = Outcome(w)]
           /\ pc' = Outcome(w)
    /\ UNCHANGED <<db, clock, recon, filings, lookup, allocVars>>

\* A reader that shares the writer's connection: it sees the rows of the
\* open transaction.
ReadsOpenTransaction(committed, open) == open

\* The tables a call of get_filing reads: its cursor is on a connection of
\* its own (DB.connection of its request), which sees committed rows only.
ReaderTables(committed, open) == committed

\* Another request calls get_filing for an event, one the writer has under
\* way included, wherever the writer stands.
ConcurrentGetFiling ==
    /\ recon.op = "none"
    /\ \E e \in tx.event \cup db.event :
        LET t == ReaderTables(db, tx)
            headers == {h \in tx.filing : h.event_id = e.event_id}
            filing_type == IF headers = {} THEN call.f.filing_type
                           ELSE GetFilingType((CHOOSE h \in headers : TRUE).filing_typ_cd)
            info == GetFilingEventInfo(t, e.corp_num, e.event_id)
            names == ReconNameChoices(t, e.corp_num, e.event_id)
        IN  \E offices_event \in
                    IF info = {} THEN {Null}
                    ELSE GetArComponentEvent(t, e.corp_num, "OTADD", CHOOSE i \in info : TRUE),
               directors_event \in
                    IF info = {} THEN {Null}
                    ELSE GetArComponentEvent(t, e.corp_num, "OTCDR", CHOOSE i \in info : TRUE),
               name \in IF names = {} THEN {None} ELSE names :
                \E r \in {GetFilingRun(t, filing_type, None, e.corp_num, e.event_id,
                                      offices_event, directors_event, name)} :
                    recon' = [op |-> "get_filing", filing_type |-> filing_type,
                              corp_num |-> e.corp_num, event_id |-> e.event_id,
                              err |-> r.err, body |-> r.body,
                              paper_only |-> r.paper_only,
                              offices_event |-> r.offices_event,
                              directors_event |-> r.directors_event]
    /\ UNCHANGED <<db, tx, pc, call, clock, filings, lookup, allocVars>>

\* The concurrent get_filing has returned or raised.
ConcurrentGetFilingReturn ==
    /\ recon.op # "none"
    /\ recon' = NoRecon
    /\ UNCHANGED <<db, tx, pc, call, clock, filings, lookup, allocVars>>

NextConcurrent ==
    \/ SubmitBegin \/ SubmitHeader \/ SubmitEffects
    \/ CallerCommit \/ CallerRollback
    \/ ConcurrentGetFiling \/ ConcurrentGetFilingReturn

-----------------------------------------------------------------------------
vars == <<lookup, system_id, noncorp_event_seq, event, row_lock, conn,
          db, tx, pc, call, clock, recon, filings>>

\* The variables of the other specifications, at rest.
RegistryAtRest == lookup = NoLookup
AllocAtRest ==
    /\ system_id = 1
    /\ noncorp_event_seq = SeqStart
    /\ event = <<>>
    /\ row_lock = 0
    /\ conn = [t \in Conns |-> IdleConn]

LedgerAtRest == InitLedger({})

InitSpecRegistry == InitRegistry /\ AllocAtRest /\ LedgerAtRest
SpecRegistry == InitSpecRegistry /\ [][NextRegistry]_vars

InitSpecAlloc == InitAlloc /\ RegistryAtRest /\ LedgerAtRest
SpecAlloc == InitSpecAlloc /\ [][NextAlloc]_vars

InitSpecOffices == InitLedger(OfficeFilings) /\ RegistryAtRest /\ AllocAtRest
SpecOffices == InitSpecOffices /\ [][NextLedger]_vars

InitSpecDirectors == InitLedger(DirectorFilings) /\ RegistryAtRest /\ AllocAtRest
SpecDirectors == InitSpecDirectors /\ [][NextLedger]_vars

InitSpecNames == InitLedger(NameFilings) /\ RegistryAtRest /\ AllocAtRest
SpecNames == InitSpecNames /\ [][NextLedger]_vars

InitSpecSubmit == InitLedger(SubmitFilings) /\ RegistryAtRest /\ AllocAtRest
SpecSubmit == InitSpecSubmit /\ [][NextSubmit]_vars

\* The filings of the behaviours about filing types the registry has no
\* code for: which it has depends on the entity's type.
CodeFilings ==
    {SpecialResolution(c, {}) : c \in Corps}
    \cup {NewFiling("BC0000002", "transition", EmptyBody),
          Dissolution("BC0000002", "voluntary"),
          Dissolution("CP0000001", "administrative")}

\* The company 'BC0000002' is of any of the company types of the registry.
InitSpecCodes ==
    /\ \E corp_type \in CorpTypes \ {COOP} :
        LET t == [EmptyTables EXCEPT !.corporation["BC0000002"].corp_type = corp_type]
        IN  db = t /\ tx = t
    /\ pc = "idle"
    /\ call = NoCall
    /\ clock = 1
    /\ recon = NoRecon
    /\ filings = CodeFilings
    /\ RegistryAtRest /\ AllocAtRest
SpecCodes == InitSpecCodes /\ [][NextLedger]_vars

\* A correction of a company: its name, name translations, registered
\* office, directors and share structure.
Correction(corp_num, legalName, director) ==
    NewFiling(corp_num, "correction",
              [EmptyBody EXCEPT
                    !.nameRequest = {[legalName |-> legalName]},
                    !.nameTranslations = {"Alpha"},
                    !.offices = <<OfficeOf("registeredOffice", "addr2")>>,
                    !.parties = <<[name |-> director, roles |-> <<"Director">>]>>,
                    !.shareStructure = {[shareClasses |-> "classes"]}])

\* The filings of the behaviours about the history of temporal records.
HistoryFilings ==
    {IncorporationApplication("BC0000002", "Name1", {"Alpha", "Beta"}),
     Correction("BC0000002", "Name2", "Bob"),
     ChangeOfAddress("BC0000002", <<OfficeOf("registeredOffice", "addr1")>>),
     ChangeOfDirectors("BC0000002", <<Director("Ann", None, {"ceased"})>>),
     ChangeOfDirectors("BC0000002", <<Director("Cy", "Ann", {"nameChanged"})>>),
     NewFiling("BC0000002", "alteration",
               [EmptyBody EXCEPT !.business = {[legalType |-> BC_COMP]},
                                 !.hasProvisions = TRUE])}

InitSpecHistory == InitLedger(HistoryFilings) /\ RegistryAtRest /\ AllocAtRest
SpecHistory == InitSpecHistory /\ [][NextLedger]_vars

\* A company's alteration to the entity type.
AlterationTo(corp_num, legalType) ==
    NewFiling(corp_num, "alteration",
              [EmptyBody EXCEPT !.business = {[legalType |-> legalType]}])

\* The filings of the behaviours about selectors.
SelectorFilings ==
    {AnnualReport("CP0000001", y, Null) : y \in {CurrentYear - 1, CurrentYear}}
    \cup {ChangeOfAddress(c, <<OfficeOf("registeredOffice", "addr1")>>) : c \in Corps}
    \cup {AlterationTo("BC0000002", ty) : ty \in {BC_COMP, BCOMP}}
    \cup {AlterationTo("CP0000001", BC_COMP)}

\* The filing types and the years of the selectors.
SelectorTypes == {"annualReport", "changeOfAddress", "alteration", "transition"}
SelectorYears == {Null, CurrentYear - 1, CurrentYear}

\* A caller resolves a (filing type, entity, year) selector with
\* _get_filing_event_info, outside any submit.
GetFilingEventInfoCall ==
    /\ pc = "idle"
    /\ \E filing_type \in SelectorTypes, corp_num \in Corps, year \in SelectorYears :
        \E rows \in {GetFilingEventInfoByType(db, filing_type, None, corp_num, year)} :
            LET selector == [NoRecon EXCEPT !.op = "get_filing_event_info",
                                            !.filing_type = filing_type,
                                            !.corp_num = corp_num]
            IN  \/ /\ rows = {}
                   /\ recon' = [year |-> year] @@
                                [selector EXCEPT !.err = "FilingNotFoundException"]
                \/ \E r \in rows :
                        recon' = [year |-> year] @@
                                 [selector EXCEPT !.event_id = r.event_id]
    /\ pc' = "read"
    /\ UNCHANGED <<db, tx, call, clock, filings, lookup, allocVars>>

NextSelector ==
    \/ AddFiling
    \/ CallerCommit
    \/ CallerRollback
    \/ GetFilingEventInfoCall
    \/ GetFilingReturn

InitSpecSelector == InitLedger(SelectorFilings) /\ RegistryAtRest /\ AllocAtRest
SpecSelector == InitSpecSelector /\ [][NextSelector]_vars

InitSpecConcurrent == InitLedger(ConcurrentFilings) /\ RegistryAtRest /\ AllocAtRest
SpecConcurrent == InitSpecConcurrent /\ [][NextConcurrent]_vars

\* The filings of the behaviours about annual reports: an incorporation,
\* annual reports, one of them carrying an office and director entries in
\* its body, and office and director changes of the cooperative that may
\* come before or after them.
AnnualFilings ==
    {IncorporationApplication("BC0000002", "Name1", {}),
     AnnualReport("BC0000002", CurrentYear, Null),
     NewFiling("CP0000001", "annualReport",
               [EmptyBody EXCEPT
                    !.annualReportDate = CurrentYear,
                    !.offices = <<OfficeOf("registeredOffice", "addr2")>>,
                    !.directors = <<Director("Ann", None, {"ceased"}),
                                    Director("Bob", None, {"appointed"})>>]),
     AnnualReport("CP0000001", Null, Null),
     ChangeOfAddress("CP0000001", <<OfficeOf("registeredOffice", "addr1")>>),
     ChangeOfDirectors("CP0000001", <<Director("Ann", None, {"appointed"})>>)}

InitSpecAnnual == InitLedger(AnnualFilings) /\ RegistryAtRest /\ AllocAtRest
SpecAnnual == InitSpecAnnual /\ [][NextLedger]_vars

\* The filings of the behaviours about components read back without rows:
\* a change of address without offices, changes of directors, an
\* incorporation without parties, with and without offices, and a
\* dissolution.
MissingFilings ==
    {ChangeOfAddress("CP0000001", <<>>)}
    \cup {ChangeOfDirectors("CP0000001", <<Director("Ann", None, {a})>>) :
            a \in {"appointed", "ceased"}}
    \cup {NewFiling("BC0000002", "incorporationApplication",
                    [EmptyBody EXCEPT !.nameRequest = {[legalName |-> "Name1"]}]),
          NewFiling("BC0000002", "incorporationApplication",
                    [EmptyBody EXCEPT
                        !.nameRequest = {[legalName |-> "Name1"]},
                        !.offices = <<OfficeOf("registeredOffice", "addr1")>>]),
          Dissolution("BC0000002", "voluntary"),
          AnnualReport("CP0000001", Null, Null)}

InitSpecMissing == InitLedger(MissingFilings) /\ RegistryAtRest /\ AllocAtRest
SpecMissing == InitSpecMissing /\ [][NextLedger]_vars

\* The filings of the behaviours about the entity type inferred for an
\* alteration: incorporation and alterations of a company, and an
\* alteration of the cooperative, which has no code.
InferenceFilings ==
    {IncorporationApplication("BC0000002", "Name1", {}),
     Alteration("BC0000002", {}, {}),
     Alteration("BC0000002", {[legalName |-> "Name2"]}, {}),
     Alteration("CP0000001", {}, {})}

\* The company 'BC0000002' is a limited or an unlimited liability company,
\* whose alterations are filed under NOALA.
InitSpecInference ==
    /\ \E corp_type \in {BC_COMP, ULC_COMP} :
        LET t == [EmptyTables EXCEPT !.corporation["BC0000002"].corp_type = corp_type]
        IN  db = t /\ tx = t
    /\ pc = "idle"
    /\ call = NoCall
    /\ clock = 1
    /\ recon = NoRecon
    /\ filings = InferenceFilings
    /\ RegistryAtRest /\ AllocAtRest
SpecInference == InitSpecInference /\ [][NextLedger]_vars

\* The filings of the behaviours about the staging of changed directors:
\* appointments, and changes of directors whose first entry renames Ann
\* and whose second entry changes a director who may not exist, or
\* appoints one.
StagingFilings ==
    {ChangeOfDirectors("CP0000001", d) : d \in
        {<<Director("Ann", None, {"appointed"})>>,
         <<Director("Bob", None, {"appointed"})>>,
         <<Director("Bob", "Ann", {"nameChanged"}),
           Director("Dee", "Eve", {"nameChanged"})>>,
         <<Director("Bob", "Ann", {"nameChanged"}),
           Director("Cy", "Bob", {"addressChanged"})>>,
         <<Director("Bob", "Ann", {"appointed", "nameChanged"})>>}}

InitSpecStaging == InitLedger(StagingFilings) /\ RegistryAtRest /\ AllocAtRest
SpecStaging == InitSpecStaging /\ [][NextLedger]_vars

\* Callers that submit filings and commit or roll back, with no reader.
NextWriter == AddFiling \/ CallerCommit \/ CallerRollback

\* A filing that carries order details.
OrderFiling(corp_num, filing_type, orderDetails) ==
    NewFiling(corp_num, filing_type, [EmptyBody EXCEPT !.orderDetails = orderDetails])

\* The filings of the behaviours about the narrative of the ledger: filings
\* with an annual-report line, a director line, an office line, several of
\* them or none, and filings with order details.
NarrativeFilings ==
    {AnnualReport("CP0000001", CurrentYear, Null),
     NewFiling("CP0000001", "restoration", EmptyBody),
     NewFiling("CP0000001", "changeOfDirectors",
               [EmptyBody EXCEPT
                    !.directors = <<Director("Bob", None, {"appointed"})>>,
                    !.offices = <<OfficeOf("registeredOffice", "addr2")>>]),
     SpecialResolution("CP0000001", {}),
     IncorporationApplication("BC0000002", "Name1", {}),
     Dissolution("BC0000002", "voluntary"),
     OrderFiling("BC0000002", "registrarsNotation", "order"),
     OrderFiling("BC0000002", "registrarsOrder", "order"),
     OrderFiling("BC0000002", "courtOrder", None)}

\* The company 'BC0000002' is a limited company: the registry has codes of
\* the order filings for the limited company only.
InitSpecNarrative ==
    /\ LET t == [EmptyTables EXCEPT !.corporation["BC0000002"].corp_type = BC_COMP]
       IN  db = t /\ tx = t
    /\ pc = "idle"
    /\ call = NoCall
    /\ clock = 1
    /\ recon = NoRecon
    /\ filings = NarrativeFilings
    /\ RegistryAtRest /\ AllocAtRest
SpecNarrative == InitSpecNarrative /\ [][NextWriter]_vars

\* An amalgamating business of a body: its identifier, whether the
\* identifier starts with 'A', its foreign jurisdiction if any, its role.
AmalgamatingBusiness(identifier, expro, foreignJurisdiction, role) ==
    [identifier |-> identifier, expro |-> expro,
     foreignJurisdiction |-> foreignJurisdiction, role |-> role]

\* An amalgamation application of a new company.
AmalgamationApplication(corp_num, filing_sub_type, amalgamatingBusinesses) ==
    WithSubType(NewFiling(corp_num, "amalgamationApplication",
                    [EmptyBody EXCEPT
                        !.nameRequest = {[legalName |-> "Name1"]},
                        !.offices = <<OfficeOf("registeredOffice", "addr1")>>,
                        !.amalgamatingBusinesses = amalgamatingBusinesses]),
                filing_sub_type)

\* The filings of the behaviours about amalgamations: of domestic
\* companies, of an extra-provincial company registered in British
\* Columbia, of companies of another province, of the federal register and
\* of another country, and of none, into a company and into a cooperative.
AmalgamationFilings ==
    {AmalgamationApplication("BC0000002", "regular",
        <<AmalgamatingBusiness("BC0000003", FALSE, {}, "amalgamating"),
          AmalgamatingBusiness("A0000004", TRUE,
                               {[country |-> "CA", region |-> "AB"]}, "amalgamating")>>),
     AmalgamationApplication("BC0000002", "horizontal",
        <<AmalgamatingBusiness("BC0000003", FALSE, {}, "primary"),
          AmalgamatingBusiness("F5", FALSE,
                               {[country |-> "US", region |-> ""]}, "amalgamating"),
          AmalgamatingBusiness("BC0000006", FALSE, {}, "amalgamating")>>),
     AmalgamationApplication("BC0000002", "vertical",
        <<AmalgamatingBusiness("A0000004", TRUE,
                               {[country |-> "CA", region |-> "BC"]}, "holding"),
          AmalgamatingBusiness("F7", FALSE,
                               {[country |-> "CA", region |-> "FEDERAL"]},
                               "amalgamating")>>),
     AmalgamationApplication("BC0000002", "regular", <<>>),
     AmalgamationApplication("CP0000001", "regular",
        <<AmalgamatingBusiness("CP0000008", FALSE, {}, "amalgamating")>>),
     AmalgamationApplication("BC0000002", "notASubType",
        <<AmalgamatingBusiness("BC0000003", FALSE, {}, "amalgamating")>>)}

InitSpecAmalgamation == InitLedger(AmalgamationFilings) /\ RegistryAtRest /\ AllocAtRest
SpecAmalgamation == InitSpecAmalgamation /\ [][NextWriter]_vars

-----------------------------------------------------------------------------
(* The claims.                                                             *)

\* Reversed iteration order of a list.
Reversed(s) == [i \in 1..Len(s) |-> s[Len(s) + 1 - i]]

\* C3: for every interleaving of event-id allocations no two events get the
\* same id, the ids of one allocator grow in allocation order, and every
\* allocation from the system_id counter leaves the counter one above the
\* value it read, whatever that value is.
C3_UniqueIncreasingIds ==
    /\ \A i, j \in DOMAIN event :
        i < j => /\ event[i].event_id # event[j].event_id
                 /\ CorpPrefix(event[i].corp_num) = CorpPrefix(event[j].corp_num)
                        => event[i].event_id < event[j].event_id
    /\ \A t \in Conns :
        (conn[t].pc \in {"insert", "returned"} /\ CorpPrefix(conn[t].corp_num) # "CP")
            => /\ conn[t].wrote
               /\ conn[t].new_num = conn[t].event_id + 1

\* C9: every legacy code of the registry is in the type_code_list of exactly
\* one filing type, so that _get_filing_type answers the same under any
\* iteration order of the registry.
C9_CodeHasOneType ==
    (lookup.op = "_get_filing_type" /\ lookup.code \in RegistryCodes)
        => /\ Cardinality(TypesOfCode(lookup.code)) = 1
           /\ lookup.result = GetFilingTypeIn(Reversed(FILING_TYPES), lookup.code)

\* Some legacy code is listed under two filing types.
RegistryHasCollision ==
    \E c \in RegistryCodes : Cardinality(TypesOfCode(c)) > 1

\* C10: a registry in which two filing types map to the same legacy code
\* fails at initialization, so no lookup is ever served from it.
C10_CollisionFailsFast ==
    RegistryHasCollision => lookup.op = "none"

\* The filing of the last call of add_filing and what the call was given.
CallReturned == call.outcome = "returned"
CallCorp == call.f.corp_num
\* The call of get_filing just made reads the event the last call of
\* add_filing created, for its entity.
ReadsLastCall ==
    /\ pc = "read"
    /\ CallReturned
    /\ recon.event_id = call.event_id
    /\ recon.corp_num = CallCorp

\* The rows of a temporal table that are current for an entity and a key.
CurrentFor(rows, corp_num, Key(_), k) ==
    {r \in CurrentRows(rows, corp_num) : Key(r) = k}

\* C1: at every commit point each entity has at most one current record
\* (end_event_id NULL) per office type, per director name, per name type,
\* per translation and as its restriction.
C1_OneCurrentPerKey ==
    LET OfficeKey(r) == r.office_typ
        DirectorKey(r) == r.name
        NameKey(r) == r.corp_name
        LegalNames(c) == {r \in CurrentRows(db.corp_name, c) :
                            r.type_code \in {NameCorp, NameNumbered}}
        Translations(c) == {r \in db.corp_name : r.type_code = NameTranslation}
    IN  \A c \in Corps :
            /\ \A r \in db.office :
                Cardinality(CurrentFor(db.office, c, OfficeKey, r.office_typ)) <= 1
            /\ \A r \in PartyGetCurrent(db, c) :
                Cardinality(CurrentFor(PartyGetCurrent(db, c), c, DirectorKey, r.name)) <= 1
            /\ Cardinality(LegalNames(c)) <= 1
            /\ \A r \in Translations(c) :
                Cardinality(CurrentFor(Translations(c), c, NameKey, r.corp_name)) <= 1
            /\ Cardinality(CurrentRows(db.corp_restriction, c)) <= 1

UnmatchedChange ==
    LET directors == call.f.body.directors
        Changed(i) == directors[i].actions \cap {"nameChanged", "addressChanged"} # {}
        Matched(i) ==
            \/ \E r \in PartyGetCurrent(call.before, CallCorp) :
                    CompareParties(r, directors[i])
            \/ \E j \in 1..i : /\ "appointed" \in directors[j].actions
                               /\ "ceased" \notin directors[j].actions
                               /\ directors[j].name = directors[i].prev
    IN  \E i \in DOMAIN directors : Changed(i) /\ ~Matched(i)

IncomingTypes == {o.office_type : o \in Range(call.f.body.offices)}
\* The offices that were current for the entity before the call, of the
\* types the filing carries.
ReplacedOffices ==
    {r \in OfficeGetCurrent(call.before, CallCorp) : r.office_typ \in IncomingTypes}
\* The rows the filing's offices become.
IncomingOffices ==
    {[corp_num |-> CallCorp, office_typ |-> o.office_type,
      start_event_id |-> call.event_id, end_event_id |-> Null, addr |-> o.addr] :
        o \in Range(call.f.body.offices)}

\* C4: a changeOfAddress filing for office types T ends each previously
\* current office of a type in T with the new event id, makes each incoming
\* office current from the new event id, leaves every other office as it
\* was, and get_filing of the new event id gives, for each type in T, the
\* incoming office.
C4_ChangeOfAddress ==
    (CallReturned /\ call.f.filing_type = "changeOfAddress")
        => /\ tx.office =
                (call.before.office \ ReplacedOffices)
                \cup {[r EXCEPT !.end_event_id = call.event_id] : r \in ReplacedOffices}
                \cup IncomingOffices
           /\ \A o \in IncomingOffices :
                CurrentFor(tx.office, CallCorp, LAMBDA r : r.office_typ, o.office_typ) = {o}
           /\ pc # "returned" => db.office = tx.office
           /\ ReadsLastCall
                => /\ recon.err = None
                   /\ \E offices \in recon.body.offices :
                        {p \in offices : p[1] \in IncomingTypes}
                            = {<<o.office_typ, o.addr>> : o \in IncomingOffices}

\* A changeOfAddress for one office type of an entity that had a current
\* office of that type and one of another type was committed and read back.
C4_Witness ==
    /\ ReadsLastCall
    /\ call.f.filing_type = "changeOfAddress"
    /\ ReplacedOffices # {}
    /\ OfficeGetCurrent(call.before, CallCorp) \ ReplacedOffices # {}
    /\ recon.body.offices # {}

\* The entity of the last call had no history before the call.
FreshEntity ==
    /\ \A e \in call.before.event : e.corp_num # CallCorp
    /\ \A table \in {call.before.office, call.before.corp_party,
                     call.before.corp_name} :
            \A r \in table : r.corp_num # CallCorp

\* A component the schema declares for the submitted filing's type.
Declared(name) == name \in Components(call.f.filing_type)

\* C5: get_filing of the event add_filing returned for a filing of a fresh
\* entity gives, for every declared component the submitted body carries
\* (the dates, the offices, the directors, the name translations), the
\* value that was submitted.
C5_RoundTrip ==
    LET body == call.f.body
    IN  (ReadsLastCall /\ FreshEntity)
            => /\ recon.err = None
               /\ (Declared("annualReportDate") /\ body.annualReportDate # Null)
                    => recon.body.annualReportDate = {body.annualReportDate}
               /\ (Declared("annualGeneralMeetingDate")
                        /\ body.annualGeneralMeetingDate # Null)
                    => recon.body.annualGeneralMeetingDate
                            = {body.annualGeneralMeetingDate}
               /\ (Declared("offices") /\ body.offices # <<>>)
                    => recon.body.offices
                            = {{<<o.office_type, o.addr>> : o \in Range(body.offices)}}
               /\ (Declared("directors") /\ body.directors # <<>>)
                    => \E directors \in recon.body.directors :
                            {d.name : d \in directors}
                                = {d.name : d \in Range(body.directors)}
               /\ (Declared("nameTranslations") /\ body.nameTranslations # {})
                    => \E translations \in recon.body.nameTranslations :
                            {x.name : x \in translations} = body.nameTranslations

\* C7: a filing with incoming translation set I for an entity whose current
\* translations are C creates each name of I \ C as current from the new
\* event, ends each name of C \ I with the new event and leaves the names of
\* both untouched, whatever I is, the empty set included.
C7_TranslationDiff ==
    LET I == call.f.body.nameTranslations
        Old == GetCurrentByType(call.before, CallCorp, NameTranslation)
        C == {r.corp_name : r \in Old}
        Created == {[corp_num |-> CallCorp, corp_name |-> n,
                     type_code |-> NameTranslation,
                     start_event_id |-> call.event_id, end_event_id |-> Null] :
                        n \in I \ C}
        Ended == {r \in Old : r.corp_name \notin I}
        Translations(t) == {r \in t.corp_name : /\ r.corp_num = CallCorp
                                                 /\ r.type_code = NameTranslation}
    IN  (CallReturned /\ Declared("nameTranslations"))
            => Translations(tx) =
                    (Translations(call.before) \ Ended)
                    \cup {[r EXCEPT !.end_event_id = call.event_id] : r \in Ended}
                    \cup Created

\* The events of the entity that changed its offices or its directors: the
\* events whose header carries a code of the filing type.
ChangeEvents(corp_num, filing_type) ==
    {h \in EventFilingRows(db) :
        /\ h.corp_num = corp_num
        /\ h.filing_typ_cd \in Range(FilingTypeEntry(filing_type)["type_code_list"])}

\* Of the change events at or before the time of the event read, the latest.
LatestUpTo(changes, event_id) ==
    LET at == (CHOOSE e \in db.event : e.event_id = event_id).event_timestmp
        upto == {h \in changes : h.event_timestmp <= at}
    IN  {h.event_id : h \in {x \in upto : \A o \in upto : o.event_timestmp <= x.event_timestmp}}

\* C8: get_filing of an annual report reads the offices as of the entity's
\* latest office-change event at or before the annual report's time, and the
\* directors as of its latest director-change event at or before it, when
\* there is one, whatever the type of the entity.
C8_ArComponentEvent ==
    (pc = "read" /\ recon.filing_type = "annualReport" /\ recon.err = None)
        => LET offices == LatestUpTo(ChangeEvents(recon.corp_num, "changeOfAddress"),
                                     recon.event_id)
               directors == LatestUpTo(ChangeEvents(recon.corp_num, "changeOfDirectors"),
                                       recon.event_id)
           IN  /\ offices # {} => recon.offices_event \in offices
               /\ directors # {} => recon.directors_event \in directors

\* The code FILING_TYPES registers for a filing type, a sub-type (None when
\* the filing has none) and an entity type; None when it registers none.
RegisteredCode(filing_type, sub_type, corp_type) ==
    LET entry == FilingTypeEntry(filing_type)
    IN  IF sub_type = None THEN Get(entry, corp_type, None)
        ELSE IF sub_type \in Range(Get(entry, "sub_type_list", <<>>))
             THEN Get(Get(entry, sub_type, EmptyMap), corp_type, None)
             ELSE None

\* C11: get_filing_type_code returns the code registered for the filing
\* type, the entity type and the sub-type in force - the argument when one
\* is passed, else the filing's own - and None when none is registered.
C11_CodeForSubType ==
    lookup.op = "get_filing_type_code"
        => lookup.result =
            RegisteredCode(lookup.filing_type,
                           IF lookup.arg_sub_type # None
                           THEN lookup.arg_sub_type ELSE lookup.filing_sub_type,
                           lookup.corp_type)

\* C12: _get_filing_type inverts get_filing_type_code: the filing type of
\* the code a lookup returned is the filing type the lookup was made for.
C12_ReverseInvertsForward ==
    (lookup.op = "get_filing_type_code" /\ lookup.result # None)
        => GetFilingType(lookup.result) = lookup.filing_type

\* A filing add_filing has to reject: its type is outside the list of
\* submittable types, or its sub-type is set and is none of the sub-types
\* the registry lists for its type.
RejectedFiling(f) ==
    \/ f.filing_type \notin SubmittableFilingTypes
    \/ /\ f.filing_sub_type # None
       /\ f.filing_sub_type \notin
            Range(Get(FilingTypeEntry(f.filing_type), "sub_type_list", <<>>))

CallLegalType == call.before.corporation[CallCorp].corp_type

EventKeyedTables == {"event", "filing", "filing_user", "resolution", "corp_involved"}
TemporalTables ==
    {"office", "corp_party", "corp_name", "corp_restriction", "corp_state",
     "share_struct", "jurisdiction"}

\* The ids of the events of tables t.
EventIds(t) == {e.event_id : e \in t.event}

\* What tables t hold of one event: its event, header, filing user and
\* other rows keyed by it, its ledger text, the temporal rows it started
\* (whoever ended them later) and the temporal rows it ended.
RowsOfEvent(t, event_id) ==
    [keyed |-> [n \in EventKeyedTables |-> {r \in t[n] : r.event_id = event_id}],
     text |-> {t.ledger_text[i] : i \in {j \in DOMAIN t.ledger_text :
                                            t.ledger_text[j].event_id = event_id}},
     started |-> [n \in TemporalTables |->
        {[r EXCEPT !.end_event_id = IF @ = event_id THEN event_id ELSE Null] :
            r \in {x \in t[n] : x.start_event_id = event_id}}],
     ended |-> [n \in TemporalTables |-> {r \in t[n] : r.end_event_id = event_id}]]

\* Tables t hold nothing of the event.
NoRowOfEvent(t, event_id) == RowsOfEvent(t, event_id) = RowsOfEvent(EmptyTables, event_id)

CeasedWithChanges(director) ==
    /\ "ceased" \in director.actions
    /\ director.actions \cap {"nameChanged", "addressChanged"} # {}

KeepsHistory(old, new) ==
    /\ old.event \subseteq new.event
    /\ \A n \in TemporalTables : \A r \in old[n] :
            IF r.end_event_id # Null THEN r \in new[n]
            ELSE \E r2 \in new[n] : [r2 EXCEPT !.end_event_id = Null] = r

\* Every entry of the filing ceases, with no other action, a director who
\* is not current in tables t.
CeasesNobody(t, f) ==
    /\ f.filing_type = "changeOfDirectors"
    /\ \A i \in DOMAIN f.body.directors :
            /\ f.body.directors[i].actions = {"ceased"}
            /\ \A r \in PartyGetCurrent(t, f.corp_num) :
                    r.name # f.body.directors[i].name

DissolutionEvents == {"SYSDA", "SYSDF", "SYSDT"}

\* The events of tables t with the id, and the headers keyed by the id.
EventsWithId(t, event_id) == {e \in t.event : e.event_id = event_id}
HeadersOf(t, event_id) == {h \in t.filing : h.event_id = event_id}

\* Headers and events of tables t are one to one: each header is keyed by
\* exactly one event, of type FILE; each FILE event has exactly one header;
\* no dissolution event has one.
HeadersMatchEvents(t) ==
    /\ \A h \in t.filing :
            /\ Cardinality(EventsWithId(t, h.event_id)) = 1
            /\ \A e \in EventsWithId(t, h.event_id) : e.event_typ_cd = "FILE"
    /\ \A e \in t.event :
            /\ e.event_typ_cd = "FILE" => Cardinality(HeadersOf(t, e.event_id)) = 1
            /\ e.event_typ_cd \in DissolutionEvents => HeadersOf(t, e.event_id) = {}

\* C18: after any sequence of submits and administrative or involuntary
\* dissolution events, every filing header is keyed by exactly one event of
\* type FILE, every FILE event of a successful submit has exactly one
\* header, and no dissolution event has a header.
C18_HeaderPerFileEvent ==
    /\ HeadersMatchEvents(db)
    /\ pc = "returned" => HeadersMatchEvents(tx)

\* Submits and dissolution events are committed for one entity, and a
\* dissolution event has just been written after them.
C18_Witness ==
    /\ pc = "returned"
    /\ \E e \in tx.event :
            /\ e.event_id = call.event_id
            /\ e.event_typ_cd \in {"SYSDF", "SYSDT"}
            /\ \E d \in db.event : d.event_typ_cd = "SYSDA" /\ d.corp_num = e.corp_num
            /\ \E d \in db.event : d.event_typ_cd = "FILE" /\ d.corp_num = e.corp_num

\* The rows of tables `new` that tables `old` do not hold carry the event:
\* one new event with the id, new keyed rows and ledger text under the id,
\* temporal rows started by the event or, current in `old`, ended by it.
RowsCarryEvent(old, new, event_id) ==
    /\ \E e \in new.event : new.event = old.event \cup {e} /\ e.event_id = event_id
                              /\ e \notin old.event
    /\ \A n \in EventKeyedTables : \A r \in new[n] \ old[n] : r.event_id = event_id
    /\ \A i \in DOMAIN new.ledger_text :
            IF i \in DOMAIN old.ledger_text
            THEN new.ledger_text[i] = old.ledger_text[i]
            ELSE new.ledger_text[i].event_id = event_id
    /\ \A n \in TemporalTables : \A r \in new[n] \ old[n] :
            \/ r.start_event_id = event_id
            \/ r.end_event_id = event_id /\ [r EXCEPT !.end_event_id = Null] \in old[n]

\* A submit has just returned its event id.
SubmitReturns == pc = "idle" /\ pc' = "returned" /\ call'.f.filing_type # None

\* C19: every mutation a submit makes to entity state (temporal records,
\* corporate state, entity type, restriction, frozen flag, summary record)
\* is attributed to exactly one event, the event the submit allocated: what
\* the submit changed is in rows that carry that event id.
C19_MutationsCarryEvent ==
    [][SubmitReturns
        => /\ RowsCarryEvent(tx, tx', call'.event_id)
           /\ tx'.corporation = tx.corporation]_vars

\* The headers that match a (filing type, entity, year) selector: headers
\* of the entity under a code of the filing type's type_code_list and,
\* when a year is given, of that period-end year.
MatchingHeaders(t, filing_type, corp_num, year) ==
    {r \in EventFilingRows(t) :
        /\ r.filing_typ_cd \in
                Range(Get(FilingTypeEntry(filing_type), "type_code_list", <<>>))
        /\ r.corp_num = corp_num
        /\ year # Null => /\ r.period_end_dt # ToDate(Null)
                           /\ ExtractYear(r.period_end_dt) = year}

\* C20: resolving a (filing type, entity id, optional year) selector yields
\* exactly one header, a matching header of the latest event timestamp
\* (of the period-end year when a year is given), or fails with
\* FilingNotFound when no header matches; it never returns a header that
\* does not match the selector.
C20_SelectorResolves ==
    recon.op = "get_filing_event_info" =>
        LET matching == MatchingHeaders(db, recon.filing_type, recon.corp_num,
                                        recon.year)
        IN  IF matching = {}
            THEN recon.err = "FilingNotFoundException"
            ELSE /\ recon.err = None
                 /\ Cardinality(HeadersOf(db, recon.event_id)) = 1
                 /\ \E r \in matching :
                        /\ r.event_id = recon.event_id
                        /\ \A o \in matching : o.event_timestmp <= r.event_timestmp

\* The time the event was stamped with.
TimestampOf(event_id) ==
    (CHOOSE e \in db.event : e.event_id = event_id).event_timestmp

\* Some event stamped at or before the time `at` changed temporal rows of
\* the entity: it started or ended one of them.
ChangedUpTo(rows, corp_num, at) ==
    \E r \in rows :
        /\ r.corp_num = corp_num
        /\ \/ TimestampOf(r.start_event_id) <= at
           \/ r.end_event_id # Null /\ TimestampOf(r.end_event_id) <= at

\* get_filing has read an annual report of the entity it was asked under.
AnnualReportRead ==
    /\ pc = "read"
    /\ recon.op = "get_filing"
    /\ recon.filing_type = "annualReport"
    /\ EventCorp(db, recon.event_id) = recon.corp_num

OtherFilingRead ==
    /\ pc = "read"
    /\ recon.op = "get_filing"
    /\ recon.filing_type # "annualReport"
    /\ EventCorp(db, recon.event_id) = recon.corp_num

\* The filing read expects the offices component and the event has no
\* office rows.
OfficesMissing ==
    /\ "offices" \in Components(recon.filing_type)
    /\ OfficeGetByEvent(db, recon.event_id) = {}

\* The filing read expects the directors component and the event has no
\* director rows, or expects the parties component and the event has no
\* party rows.
PartiesMissing ==
    \/ /\ "directors" \in Components(recon.filing_type)
       /\ PartyGetByEvent(db, recon.corp_num, recon.event_id,
                          RoleTypes["Director"]) = {}
    \/ /\ "parties" \in Components(recon.filing_type)
       /\ PartyGetByEvent(db, recon.corp_num, recon.event_id, None) = {}

\* C22: get_filing of a filing that is not an annualReport raises
\* OfficeNotFoundException when the offices component is expected and the
\* event has no office rows, and PartiesNotFoundException when a directors
\* or parties component is expected and has no rows (the exception of the
\* component walked first when both lack rows); the caller gets that
\* exception and no document.
C22_MissingComponentRaises ==
    OtherFilingRead =>
        /\ OfficesMissing /\ ~PartiesMissing
                => recon.err = "OfficeNotFoundException"
        /\ PartiesMissing /\ ~OfficesMissing
                => recon.err = "PartiesNotFoundException"
        /\ OfficesMissing /\ PartiesMissing
                => recon.err \in {"OfficeNotFoundException",
                                  "PartiesNotFoundException"}

\* Each of the two exceptions reached a caller.
C22_Witness ==
    /\ OtherFilingRead
    /\ PartiesMissing
    /\ ~OfficesMissing
    /\ recon.filing_type = "changeOfDirectors"
    /\ db.corp_party # {}

\* get_filing has raised to its caller.
FailedRead == pc = "read" /\ recon.op = "get_filing" /\ recon.err # None

\* C23: when get_filing fails at a component, the filing object the caller
\* passed in carries nothing the failed call filled in: no component in its
\* body and no paper-only value.
C23_NoPartialDocument ==
    FailedRead => recon.body = EmptyReconBody /\ ~recon.paper_only

\* get_filing has returned the document of an event whose filing type
\* declares the nameTranslations component.
TranslationsRead ==
    /\ pc = "read"
    /\ recon.op = "get_filing"
    /\ recon.err = None
    /\ "nameTranslations" \in Components(recon.filing_type)

\* The translations of the entity read whose row satisfies `hit`, by name.
TranslationNames(hit(_)) ==
    {r.corp_name : r \in {x \in db.corp_name :
                            /\ x.corp_num = recon.corp_num
                            /\ x.type_code = NameTranslation
                            /\ hit(x)}}

\* C24: the document get_filing returns for event E lists a translation as
\* new exactly when its start_event_id is E and as ceased exactly when its
\* end_event_id is E, lists no other translation, and has no
\* nameTranslations key exactly when it has neither.
C24_TranslationsOfEvent ==
    TranslationsRead =>
        LET StartsAt(x) == x.start_event_id = recon.event_id
            EndsAt(x) == x.end_event_id = recon.event_id
            listed == {[name |-> n, mark |-> "new"] : n \in TranslationNames(StartsAt)}
                      \cup {[name |-> n, mark |-> "ceased"] :
                                n \in TranslationNames(EndsAt)}
        IN  recon.body.nameTranslations = IF listed = {} THEN {} ELSE {listed}

\* A document was returned that lists a translation as new, another as
\* ceased, and leaves out one that was current before and after the event.
C24_Witness ==
    /\ TranslationsRead
    /\ \E l \in recon.body.nameTranslations :
            /\ \E x \in l : x.mark = "new"
            /\ \E x \in l : x.mark = "ceased"
            /\ \E r \in db.corp_name :
                    /\ r.corp_num = recon.corp_num
                    /\ r.type_code = NameTranslation
                    /\ r.start_event_id < recon.event_id
                    /\ r.end_event_id = Null
                    /\ \A x \in l : x.name # r.corp_name

\* get_filing has read, under its entity, an event whose header carries the
\* code NOALA and whose filing type declares the business component.
InferredRead ==
    /\ pc = "read"
    /\ recon.op = "get_filing"
    /\ EventCorp(db, recon.event_id) = recon.corp_num
    /\ "business" \in Components(recon.filing_type)
    /\ \E h \in HeadersOf(db, recon.event_id) : h.filing_typ_cd = "NOALA"

\* The entity types implied by the code of the entity's latest header before
\* the event read whose code implies a type; empty when there is none.
ImpliedTypes ==
    LET prior == {h \in EventFilingRows(db) :
                    /\ h.corp_num = recon.corp_num
                    /\ h.event_id < recon.event_id
                    /\ h.filing_typ_cd \in DOMAIN FILING_TYPE_TO_CORP_TYPE_CONVERSION}
    IN  {FILING_TYPE_TO_CORP_TYPE_CONVERSION[h.filing_typ_cd] :
            h \in {x \in prior : \A o \in prior : o.event_id <= x.event_id}}

\* C25: get_filing of an event filed under NOALA returns as the legal type
\* of the business component the type implied by the entity's most recent
\* type-implying code before the event, and fails with
\* UnableToDetermineCorpTypeException, and with no other error, when there
\* is no such prior filing.
C25_InferredCorpType ==
    InferredRead =>
        IF ImpliedTypes = {}
        THEN recon.err = "UnableToDetermineCorpTypeException"
        ELSE /\ recon.err = None
             /\ \E b \in recon.body.business : b.legalType \in ImpliedTypes

\* C26: every submit that returns, whatever its filing type, has updated
\* the summary record of its entity exactly once and returns the id of the
\* event it allocated.
C26_SummaryUpdatedOnce ==
    [][SubmitReturns
        => /\ tx'.corporation[call'.f.corp_num].updates
                = tx.corporation[call'.f.corp_num].updates + 1
           /\ \E e \in tx'.event \ tx.event : e.event_id = call'.event_id]_vars

\* A call of add_filing for a change of directors has just ended.
DirectorsSubmitEnds ==
    /\ pc = "idle"
    /\ pc' \in {"raised", "returned"}
    /\ call'.f.filing_type = "changeOfDirectors"

\* The entries of the filing of the call that carry nameChanged or
\* addressChanged.
ChangedEntries(f) ==
    {d \in Range(f.body.directors) :
        d.actions \cap {"nameChanged", "addressChanged"} # {}}

\* The names the entries of the filing carrying 'appointed' bring.
AppointedNames(f) ==
    {d.name : d \in {x \in Range(f.body.directors) : "appointed" \in x.actions}}

\* C27: in the director diff of one submit the replacement rows of the
\* changed directors are created after every entry has been processed.
\* When an entry fails the director-not-found check, no replacement row
\* has been created: the only rows the event started are appointments.
\* When the submit returns, every changed entry was matched against a
\* director who was current before the submit or whom the filing
\* appointed, never against a replacement row of an earlier entry.
C27_ReplacementsAfterDiff ==
    [][DirectorsSubmitEnds
        => /\ (pc' = "raised" /\ call'.status = NotFound)
                => \A r \in tx'.corp_party :
                        r.start_event_id = call'.event_id
                            => r.name \in AppointedNames(call'.f)
           /\ pc' = "returned"
                => \A d \in ChangedEntries(call'.f) :
                        \/ d.prev \in AppointedNames(call'.f)
                        \/ \E r \in PartyGetCurrent(tx, call'.f.corp_num) :
                                r.name = d.prev]_vars

\* A submit whose first entry renamed a current director failed the
\* director-not-found check at its second entry: the director is ended in
\* its transaction and has no replacement.
C27_Witness ==
    /\ pc = "raised"
    /\ call.status = NotFound
    /\ Len(call.f.body.directors) = 2
    /\ \E r \in tx.corp_party : r.end_event_id = call.event_id
    /\ \A r \in tx.corp_party : r.start_event_id # call.event_id

\* A call of add_filing has just ended for a change of directors with one
\* entry, which carries 'appointed' together with a name or address change.
AppointedChangeEnds ==
    /\ DirectorsSubmitEnds
    /\ Len(call'.f.body.directors) = 1
    /\ "appointed" \in call'.f.body.directors[1].actions
    /\ call'.f.body.directors[1] \in ChangedEntries(call'.f)

\* C29: a director entry carrying 'appointed' together with nameChanged or
\* addressChanged is not rejected for the combination; the submit goes on
\* with the change handling of the entry: when a current director matches
\* the entry's old value the submit returns, having ended that director
\* and created the appointed row and a replacement row for each director
\* matched, and when none matches it fails with the director-not-found
\* error.
C29_AppointedWithChange ==
    [][AppointedChangeEnds
        => LET d == call'.f.body.directors[1]
               matched == {r \in PartyGetCurrent(tx, call'.f.corp_num) :
                                r.name = d.prev}
           IN  IF matched # {}
               THEN /\ pc' = "returned"
                    /\ \A r \in matched :
                            [r EXCEPT !.end_event_id = call'.event_id]
                                \in tx'.corp_party
                    /\ Cardinality({r \in tx'.corp_party :
                                        /\ r.start_event_id = call'.event_id
                                        /\ r.name = d.name})
                            = 1 + Cardinality(matched)
               ELSE /\ pc' = "raised"
                    /\ call'.err = "GenericException"
                    /\ call'.status = NotFound]_vars

\* A submit whose entry carries 'appointed' and 'nameChanged' returned and
\* ended the director the entry renames.
C29_Witness ==
    /\ pc = "returned"
    /\ Len(call.f.body.directors) = 1
    /\ call.f.body.directors[1].actions = {"appointed", "nameChanged"}
    /\ \E r \in tx.corp_party :
            r.name = call.f.body.directors[1].prev /\ r.end_event_id = call.event_id

\* A call of add_filing has just returned for a change of directors with
\* one entry, whose action set is exactly {action}.
OneEntryReturns(action) ==
    /\ DirectorsSubmitEnds
    /\ pc' = "returned"
    /\ Len(call'.f.body.directors) = 1
    /\ call'.f.body.directors[1].actions = {action}

\* C28: in the director diff an entry whose actions are exactly {appointed}
\* creates one new current party row and ends none, and an entry whose
\* actions are exactly {ceased} ends the current director of its name and
\* creates none.
C28_AppointedAndCeased ==
    [][LET d == call'.f.body.directors[1]
           corp_num == call'.f.corp_num
           created == tx'.corp_party \ tx.corp_party
           named == {r \in PartyGetCurrent(tx, corp_num) : r.name = d.name}
       IN  /\ OneEntryReturns("appointed")
                => /\ tx.corp_party \subseteq tx'.corp_party
                   /\ Cardinality(created) = 1
                   /\ \A r \in created :
                        /\ r.corp_num = corp_num
                        /\ r.name = d.name
                        /\ r.start_event_id = call'.event_id
                        /\ r.end_event_id = Null
           /\ OneEntryReturns("ceased")
                => tx'.corp_party =
                        (tx.corp_party \ named)
                        \cup {[r EXCEPT !.end_event_id = call'.event_id] :
                                r \in named}]_vars

\* A submit ceased a director who was current since an earlier event.
C28_Witness ==
    /\ pc = "returned"
    /\ Len(call.f.body.directors) = 1
    /\ call.f.body.directors[1].actions = {"ceased"}
    /\ \E r \in tx.corp_party :
            /\ r.name = call.f.body.directors[1].name
            /\ r.start_event_id < call.event_id
            /\ r.end_event_id = call.event_id

\* A call of add_filing for an annual report has just ended.
AnnualReportSubmitEnds ==
    /\ pc = "idle"
    /\ pc' \in {"raised", "returned"}
    /\ call'.f.filing_type = "annualReport"

\* C30: a submit of an annualReport creates and ends no office record and no
\* director record, whatever offices and directors its body carries.
C30_ArLeavesOfficesAndDirectors ==
    [][AnnualReportSubmitEnds
        => /\ tx'.office = tx.office
           /\ tx'.corp_party = tx.corp_party]_vars

\* An annual report whose body carries another registered office, the
\* cessation of the current director and an appointment was submitted and
\* returned.
C30_Witness ==
    /\ pc = "returned"
    /\ call.f.filing_type = "annualReport"
    /\ \E i \in DOMAIN call.f.body.offices :
            \E r \in OfficeGetCurrent(tx, call.f.corp_num) :
                /\ r.office_typ = call.f.body.offices[i].office_type
                /\ r.addr # call.f.body.offices[i].addr
    /\ \E i \in DOMAIN call.f.body.directors :
            /\ "ceased" \in call.f.body.directors[i].actions
            /\ \E r \in PartyGetCurrent(tx, call.f.corp_num) :
                    r.name = call.f.body.directors[i].name

\* A call of add_filing for a correction has just returned.
CorrectionReturns == SubmitReturns /\ call'.f.filing_type = "correction"

\* The roles of the parties of a body, one per row to create.
PartyRoles(f) ==
    UNION {{<<i, j>> : j \in DOMAIN f.body.parties[i].roles} :
                i \in DOMAIN f.body.parties}

\* C31: a correction that carries parties ends every current director row
\* of the entity with the new event before it creates a party row, so that
\* no row it creates is ended, and creates one current row per incoming
\* party role without comparing it with the prior rows: also for a name a
\* prior director carries.
C31_CorrectionReplacesDirectors ==
    [][(CorrectionReturns /\ call'.f.body.parties # <<>>)
        => LET f == call'.f
               Ended(r) == IF /\ r.corp_num = f.corp_num
                              /\ r.end_event_id = Null
                              /\ r.party_typ_cd = RoleTypes["Director"]
                           THEN [r EXCEPT !.end_event_id = call'.event_id]
                           ELSE r
               kept == {Ended(r) : r \in tx.corp_party}
               created == tx'.corp_party \ kept
           IN  /\ kept \subseteq tx'.corp_party
               /\ \A r \in kept :
                    (r.corp_num = f.corp_num /\ r.party_typ_cd = RoleTypes["Director"])
                        => r.end_event_id # Null
               /\ Cardinality(created) = Cardinality(PartyRoles(f))
               /\ \A r \in created :
                    /\ r.corp_num = f.corp_num
                    /\ r.start_event_id = call'.event_id
                    /\ r.end_event_id = Null
                    /\ \E i \in DOMAIN f.body.parties : f.body.parties[i].name = r.name]_vars

\* A correction naming a director of the name of a current director
\* returned: the prior row is ended by the event and a new row of that name
\* is current.
C31_Witness ==
    /\ pc = "returned"
    /\ call.f.filing_type = "correction"
    /\ \E old \in tx.corp_party, new \in tx.corp_party :
            /\ old.name = new.name
            /\ old.start_event_id < call.event_id
            /\ old.end_event_id = call.event_id
            /\ new.start_event_id = call.event_id
            /\ new.end_event_id = Null

\* C32: a correction runs none of the annual-report logic: the submit
\* leaves the corporate state of the entity, its summary record with the
\* last-annual-report-filed date and the narrative of the ledger as they
\* were.
C32_CorrectionSkipsAnnualReport ==
    [][CorrectionReturns
        => /\ tx'.corp_state = tx.corp_state
           /\ tx'.corporation = tx.corporation
           /\ tx'.ledger_text = tx.ledger_text]_vars

\* A correction of an entity that has a corporate state and a narrative
\* returned.
C32_Witness ==
    /\ pc = "returned"
    /\ call.f.filing_type = "correction"
    /\ \E r \in tx.corp_state : r.corp_num = call.f.corp_num
    /\ tx.ledger_text # <<>>

\* A submit of a filing that is not a correction returns.
DefaultPathReturns == SubmitReturns /\ call'.f.filing_type # "correction"

\* The filing has an annual-report line, a director line, an office line.
HasArLine(f) == f.filing_type = "annualReport" /\ f.source # "BAR"
HasDirLine(f) == f.filing_type # "annualReport" /\ f.body.directors # <<>>
HasOfficeLine(f) ==
    /\ f.filing_type # "annualReport"
    /\ \/ IsFilingTypeMatch(f.filing_type, f.filing_sub_type, "dissolution", "voluntary")
       \/ /\ f.body.offices # <<>>
          /\ f.filing_type \notin {"amalgamationApplication", "continuationIn",
                                   "incorporationApplication"}

\* The lines of a notation that start with one of the given words.
LinesOf(notation, words) ==
    {i \in DOMAIN notation : notation[i].line \in words}

\* C33: a submit that is not a correction appends to the ledger text the
\* assembled narrative once, with the annual-report line, the director line
\* and the office lines the filing has, when it has one of them, and not at
\* all when it has none; a registrarsNotation, registrarsOrder or courtOrder
\* filing appends its order details once, whatever they are.
C33_NarrativePersistedOnce ==
    [][DefaultPathReturns =>
        LET f == call'.f
            n == Len(tx.ledger_text)
            appended == SubSeq(tx'.ledger_text, n + 1, Len(tx'.ledger_text))
            IsOrder(r) == r.notation = <<TextLine("orderDetails", Null,
                                                  f.body.orderDetails)>>
            IsResolution(r) == LinesOf(r.notation, {"resolution"}) # {}
            IsNarrative(r) == ~IsOrder(r) /\ ~IsResolution(r)
            narrative == SelectSeq(appended, IsNarrative)
            orders == SelectSeq(appended, IsOrder)
        IN  /\ SubSeq(tx'.ledger_text, 1, n) = tx.ledger_text
            /\ \A i \in DOMAIN appended : appended[i].event_id = call'.event_id
            /\ Len(narrative) =
                IF HasArLine(f) \/ HasDirLine(f) \/ HasOfficeLine(f) THEN 1 ELSE 0
            /\ \A i \in DOMAIN narrative :
                LET text == narrative[i].notation
                    ar == LinesOf(text, {"ANNUAL REPORT",
                                         "ANNUAL REPORT - NO AGM HELD IN"})
                    dir == LinesOf(text, {"Director change."})
                    office == LinesOf(text, {"Change to the"})
                IN  /\ Cardinality(ar) = (IF HasArLine(f) THEN 1 ELSE 0)
                    /\ Cardinality(dir) = (IF HasDirLine(f) THEN 1 ELSE 0)
                    /\ (office # {}) = HasOfficeLine(f)
                    /\ ar \cup dir \cup office = DOMAIN text
                    /\ \A a \in ar, d \in dir, o \in office :
                            a < d /\ d < o
                    /\ \A a \in ar, o \in office : a < o
            /\ Len(orders) =
                IF f.filing_type \in {"registrarsNotation", "registrarsOrder",
                                      "courtOrder"}
                THEN 1 ELSE 0]_vars

\* A court order with no order details has returned with its row in the
\* ledger text, after a filing with a director line and an office line
\* that left both in one row.
C33_Witness ==
    /\ pc = "returned"
    /\ call.f.filing_type = "courtOrder"
    /\ call.f.body.orderDetails = None
    /\ \E i \in DOMAIN tx.ledger_text :
            /\ tx.ledger_text[i].event_id = call.event_id
            /\ tx.ledger_text[i].notation = <<TextLine("orderDetails", Null, None)>>
    /\ \E i \in DOMAIN tx.ledger_text :
            /\ LinesOf(tx.ledger_text[i].notation, {"Director change."}) # {}
            /\ LinesOf(tx.ledger_text[i].notation, {"Change to the"}) # {}

\* A submit of an amalgamation application returns.
AmalgamationReturns == SubmitReturns /\ call'.f.filing_type = "amalgamationApplication"

\* An amalgamating business with no foreign jurisdiction is domestic; one
\* with a foreign jurisdiction other than British Columbia is foreign or
\* extra-provincial.
IsDomestic(ab) == ab.foreignJurisdiction = {}
IsForeign(ab) ==
    \E fj \in ab.foreignJurisdiction : ~(fj.country = "CA" /\ fj.region = "BC")

\* The state rows of an entity.
StateRows(t, corp_num) == {r \in t.corp_state : r.corp_num = corp_num}

NoCodeRaises ==
    /\ pc = "idle" /\ pc' = "raised"
    /\ ~RejectedFiling(call'.f)
    /\ RegisteredCode(call'.f.filing_type, call'.f.filing_sub_type,
                      call'.before.corporation[call'.f.corp_num].corp_type) = None

\* C35: a submit of a filing with no code in the registry fails before an
\* event is allocated and before the filing user is recorded: it takes no
\* id from the event sequence or from the id counter and leaves no event
\* and no filing user behind.
C35_CodeBeforeEvent ==
    [][NoCodeRaises =>
        /\ call'.err = "InvalidFilingTypeException"
        /\ call'.event_id = Null
        /\ noncorp_event_seq' = noncorp_event_seq
        /\ tx'.system_id = tx.system_id
        /\ tx'.event = tx.event
        /\ tx'.filing_user = tx.filing_user]_vars

\* A submit of a filing add_filing accepts ends, by its return or by the
\* exception it raises.
AcceptedSubmitEnds ==
    /\ pc = "idle" /\ pc' \in {"returned", "raised"}
    /\ call'.f.filing_type # None
    /\ ~RejectedFiling(call'.f)

\* The code of the registry for the filing of the submit that ends.
SubmitCode ==
    RegisteredCode(call'.f.filing_type, call'.f.filing_sub_type,
                   call'.before.corporation[call'.f.corp_num].corp_type)

\* C36: a submit of an accepted filing whose type, sub-type and entity type
\* have a code in the registry does not raise InvalidFilingTypeException:
\* _insert_filing writes the header of its event under that code.
C36_RegisteredCodeHasHeader ==
    [][(AcceptedSubmitEnds /\ SubmitCode # None) =>
        /\ call'.err # "InvalidFilingTypeException"
        /\ \E h \in tx'.filing :
                h.event_id = call'.event_id /\ h.filing_typ_cd = SubmitCode]_vars

\* The code map the registry holds for the filing's sub-type, empty when it
\* holds none.
SubTypeCodes(f) == Get(FilingTypeEntry(f.filing_type), f.filing_sub_type, EmptyMap)

\* C37: a submit of an accepted filing with a sub-type finds a map of codes
\* per entity type under that sub-type in the registry, and so does not
\* raise InvalidFilingTypeException while the sub-type has no codes.
C37_SupportedSubTypeHasCodes ==
    [][(AcceptedSubmitEnds /\ call'.f.filing_sub_type # None) =>
        /\ SubTypeCodes(call'.f) # EmptyMap
        /\ ~(call'.err = "InvalidFilingTypeException"
                /\ \A ct \in CorpTypes : Get(SubTypeCodes(call'.f), ct, None) = None)]_vars

\* C38: a submit with a director diff that returns has created, for each
\* name its entries bring, no more party rows under the new event than it
\* has entries of that name: one row at most for each entry.
C38_OneRowPerEntry ==
    [][(DirectorsSubmitEnds /\ pc' = "returned") =>
        LET directors == call'.f.body.directors
            created == {r \in tx'.corp_party \ tx.corp_party :
                            r.start_event_id = call'.event_id}
        IN  /\ Cardinality(created) <= Len(directors)
            /\ \A d \in Range(directors) :
                Cardinality({r \in created : r.name = d.name}) <=
                    Cardinality({i \in DOMAIN directors :
                                    directors[i].name = d.name})]_vars

\* A caller's get_filing by event id ends, with a document or an exception.
GetFilingEnds == pc = "idle" /\ pc' = "read" /\ recon'.op = "get_filing"

\* C39: get_filing by an event id under an entity returns a document only
\* when the event is an event of that entity, and the document is of that
\* event; for an event of another entity it raises FilingNotFoundException
\* and the document stays empty.
C39_EventOfEntityOnly ==
    [][GetFilingEnds =>
        LET owner == EventCorp(db, recon'.event_id)
        IN  /\ recon'.err = None => owner = recon'.corp_num
            /\ owner # recon'.corp_num =>
                /\ recon'.err = "FilingNotFoundException"
                /\ recon'.body = EmptyReconBody]_vars

\* An entity with filings of its own asked for an event of another entity
\* and got FilingNotFoundException.
C39_Witness ==
    /\ pc = "read"
    /\ recon.op = "get_filing"
    /\ recon.err = "FilingNotFoundException"
    /\ EventCorp(db, recon.event_id) \in Corps \ {recon.corp_num}
    /\ \E e \in db.event : e.corp_num = recon.corp_num

\* A call of add_involuntary_dissolution_event returns: a call for an
\* entity, without a filing type, that is not the administrative one.
InvoluntaryReturns ==
    /\ pc = "idle" /\ pc' = "returned"
    /\ call'.f.filing_type = None
    /\ \A e \in tx'.event \ tx.event : e.event_typ_cd # "SYSDA"

\* C40: add_involuntary_dissolution_event creates one event of type SYSDF
\* and one change of the entity's state when the meta data flag overdueARs;
\* one event of type SYSDT and one change of state when they flag
\* overdueTransition and not overdueARs; and when there are no meta data or
\* they flag neither it returns None and leaves the events, the id counter,
\* the event sequence and the states as they were.
C40_InvoluntaryDissolutionEvent ==
    [][InvoluntaryReturns =>
        LET meta == call'.f.body.metaData
            corp_num == call'.f.corp_num
            events == tx'.event \ tx.event
            started == tx'.corp_state \ tx.corp_state
            Created(event_type, state) ==
                /\ call'.event_id # Null
                /\ Cardinality(events) = 1
                /\ \A e \in events :
                        /\ e.event_id = call'.event_id
                        /\ e.corp_num = corp_num
                        /\ e.event_typ_cd = event_type
                /\ tx.event \subseteq tx'.event
                /\ Cardinality({r \in started : r.end_event_id = Null}) = 1
                /\ \A r \in started :
                        /\ r.corp_num = corp_num
                        /\ r.end_event_id = Null
                                => r.state = state /\ r.start_event_id = call'.event_id
                        /\ r.end_event_id # Null => r.end_event_id = call'.event_id
                /\ CurrentCorpState(tx', corp_num) = state
                /\ tx'.filing = tx.filing
        IN  IF meta \in {"overdueARs", "both"}
            THEN Created("SYSDF", INVOLUNTARY_DISSOLUTION_NO_AR)
            ELSE IF meta = "overdueTransition"
            THEN Created("SYSDT", INVOLUNTARY_DISSOLUTION_NO_TR)
            ELSE /\ call'.event_id = Null
                 /\ tx' = tx
                 /\ noncorp_event_seq' = noncorp_event_seq]_vars

\* A call with both flags set has returned the id of a SYSDF event for an
\* entity that had a state before, and the entity is dissolved for want of
\* annual reports.
C40_Witness ==
    /\ pc = "returned"
    /\ call.f.filing_type = None
    /\ call.f.body.metaData = "both"
    /\ \E e \in tx.event : e.event_id = call.event_id /\ e.event_typ_cd = "SYSDF"
    /\ CurrentCorpState(tx, call.f.corp_num) = INVOLUNTARY_DISSOLUTION_NO_AR
    /\ \E r \in tx.corp_state :
            r.corp_num = call.f.corp_num /\ r.end_event_id = call.event_id

====
